---- MODULE Spec2Model ----
(***************************************************************************)
(* Unified Code Writing System (UCWS): CodeService.generate_code and       *)
(* CodeService.modify_code as one request-scoped state machine.            *)
(*                                                                         *)
(* The Python implementation (ai_assistant/code_services/service.py) is    *)
(* described by docs/code_writing_system_design.md; the definitions below  *)
(* follow that document, and follow the specification where the document  *)
(* is silent (outline schema validation, cancellation, the newline-run     *)
(* limit of the assembler).                                                *)
(*                                                                         *)
(* Text is a sequence of lines; a line is <<indent, token, argument>>.     *)
(* A JSON object is a record with a field "keys" holding the names that    *)
(* are present in the object.                                              *)
(***************************************************************************)
EXTENDS Integers, Sequences, FiniteSets, TLC

\* ------------------------------------------------------------------ bounds
\* how many component-detail LLM calls may be in flight at once
MaxConcurrent == 2

\* ------------------------------------------------------------------- lines
Blank == <<0, "", "">>
\* a markdown code-fence line
Fence == <<0, "FENCE", "">>
ErrorMarker == <<0, "# ERROR_MARKER", "">>
TodoLine == <<1, "pass  # TODO: Implement", "">>
PassLine == <<1, "pass", "">>

\* shortest cleaned output that _generate_detail_for_component accepts, in
\* lines (the design document says "output too short" and gives no number)
MinCodeLen == 2

RECURSIVE Flatten(_)
\* the lines of a sequence of blocks, one after the other
Flatten(blocks) ==
    IF blocks = <<>> THEN <<>> ELSE Head(blocks) \o Flatten(Tail(blocks))

\* ---------------------------------------------------------------- outline
Fn(name, desc) ==
    [keys |-> {"type", "name", "signature", "description", "body_placeholder"},
     type |-> "function", name |-> name, signature |-> name \o "()",
     description |-> desc, attributes |-> <<>>, methods |-> <<>>]

Cls(name, desc, attrs, methods) ==
    [keys |-> {"type", "name", "description", "attributes", "methods"},
     type |-> "class", name |-> name, signature |-> "",
     description |-> desc, attributes |-> attrs, methods |-> methods]

\* a component object without the key "name"
NoName(c) == [c EXCEPT !.keys = @ \ {"name"}, !.name = ""]

Obj(keys, doc, imports, components, main) ==
    [keys |-> keys, module_docstring |-> doc, imports |-> imports,
     components |-> components, main_execution_block |-> main]

AllKeys == {"module_name", "module_docstring", "imports", "components",
            "main_execution_block"}

ObjEmpty == Obj({}, "", <<>>, <<>>, <<>>)
ObjNoComponents == Obj({"module_name", "components"}, "", <<>>, <<>>, <<>>)
ObjFnNoName == Obj(AllKeys, "", <<>>, <<NoName(Fn("add", "adds"))>>, <<>>)
ObjMethodNoName ==
    Obj(AllKeys, "", <<>>,
        <<Cls("C", "", <<>>, <<NoName(Fn("m", "does m"))>>)>>, <<>>)
\* a component object whose type is neither function nor class
BadType(c) == [c EXCEPT !.type = "variable"]

ObjBadType == Obj(AllKeys, "", <<>>, <<BadType(Fn("v", ""))>>, <<>>)
\* Scenario A/B of the spec: one function add, no imports
ObjAdd == Obj({"module_name", "imports", "components"}, "", <<>>,
              <<Fn("add", "adds")>>, <<>>)
ObjTwo == Obj(AllKeys, "module doc", <<"os", "sys">>,
              <<Fn("f", "does f"), Fn("g", "")>>,
              << <<0, "if __name__ is __main__:", "">>, <<1, "f()", "">> >>)
ObjClass ==
    Obj(AllKeys, "", <<"json">>,
        <<Cls("C", "a class", <<"x: int">>,
              <<Fn("__init__", "init"), Fn("m", "does m")>>),
          Fn("f", "does f")>>, <<>>)
ObjEmptyClass ==
    Obj(AllKeys, "", <<>>, <<Cls("E", "", <<>>, <<>>), Fn("f", "")>>, <<>>)

Objects == {ObjEmpty, ObjNoComponents, ObjFnNoName, ObjMethodNoName,
            ObjBadType, ObjAdd, ObjTwo, ObjClass, ObjEmptyClass}

\* what the LLM can answer to the outline prompt: nothing, or a text that
\* may be wrapped in a markdown fence and may or may not decode as JSON
OutlineOutputs ==
    {[empty |-> TRUE, fenced |-> FALSE, decodes |-> FALSE, obj |-> ObjEmpty]}
    \cup {[empty |-> FALSE, fenced |-> fe, decodes |-> FALSE, obj |-> ObjEmpty]
            : fe \in BOOLEAN}
    \cup {[empty |-> FALSE, fenced |-> fe, decodes |-> TRUE, obj |-> o]
            : fe \in BOOLEAN, o \in Objects}

\* ----------------------------------------------------------- OutlineParser
ValidComponentMutNoNameCheck(c) ==
    /\ "type" \in c.keys
    /\ c.type \in {"function", "class"}
    /\ c.type = "class" =>
         \A i \in 1..Len(c.methods) :
             LET m == c.methods[i] IN
             /\ "type" \in m.keys /\ m.type \in {"function", "class"}

\* schema check of one component; methods of a class are checked the same way
ValidComponent(c) ==
    /\ "type" \in c.keys
    /\ c.type \in {"function", "class"}
    /\ "name" \in c.keys
    /\ c.name # ""
    /\ c.type = "class" =>
         \A i \in 1..Len(c.methods) :
             LET m == c.methods[i] IN
             /\ "type" \in m.keys /\ m.type \in {"function", "class"}
             /\ "name" \in m.keys /\ m.name # ""

\* schema check of the decoded object
ValidOutline(o) ==
    /\ "components" \in o.keys
    /\ Len(o.components) > 0
    /\ \A i \in 1..Len(o.components) : ValidComponent(o.components[i])

\* parse(rawText): "ok" with the outline, or a ParseError value
parse(raw) ==
    IF ~raw.decodes THEN [ok |-> FALSE, error |-> "decode", outline |-> ObjEmpty]
    ELSE IF ~ValidOutline(raw.obj)
         THEN [ok |-> FALSE, error |-> "schema", outline |-> ObjEmpty]
         ELSE [ok |-> TRUE, error |-> "", outline |-> raw.obj]

\* --------------------------------------------------------- OutputSanitizer
\* markdown-fence strip: a leading and a trailing fence line are dropped
clean(text) ==
    LET a == IF text # <<>> /\ Head(text) = Fence THEN Tail(text) ELSE text
    IN  IF a # <<>> /\ a[Len(a)] = Fence THEN SubSeq(a, 1, Len(a) - 1) ELSE a

\* ------------------------------------------------ ComponentDetailGenerator
None == [ok |-> FALSE, code |-> <<>>]
Code(lines) == [ok |-> TRUE, code |-> lines]

GoodCode(name) == << <<0, "def", name>>, <<1, "return", name>> >>
SpacedCode(name) ==
    << <<0, "def", name>>, <<1, "return", name>>, Blank, Blank, Blank,
       <<0, "# end of", name>> >>

\* what the LLM can answer to the detail prompt of the component called name
DetailOutputs(name) ==
    {[error |-> TRUE, text |-> <<>>],
     [error |-> FALSE, text |-> <<ErrorMarker, <<0, "cannot implement", name>> >>],
     [error |-> FALSE, text |-> << <<0, "x", "">> >>],
     [error |-> FALSE, text |-> <<Fence, <<0, "x", "">>, Fence>>],
     [error |-> FALSE, text |-> GoodCode(name)],
     [error |-> FALSE, text |-> <<Fence>> \o GoodCode(name) \o <<Fence>>],
     [error |-> FALSE, text |-> SpacedCode(name)]}

generate_detail_for_componentMutNoLengthCheck(out) ==
    IF out.error THEN None
    ELSE LET cleaned == clean(out.text) IN
         IF cleaned # <<>> /\ Head(cleaned) = ErrorMarker THEN None
         ELSE Code(cleaned)

\* _generate_detail_for_component: the cleaned code, or None when the LLM
\* call fails, answers with the error marker, or answers too little
generate_detail_for_component(out) ==
    IF out.error THEN None
    ELSE LET cleaned == clean(out.text) IN
         IF cleaned # <<>> /\ Head(cleaned) = ErrorMarker THEN None
         ELSE IF Len(cleaned) < MinCodeLen THEN None
         ELSE Code(cleaned)

\* ---------------------------------------------------------- component keys
MethodKey(c, m) == c.name \o "." \o m.name

\* keys of the leaf components of one top-level component, declaration order
KeysOf(c) ==
    IF c.type = "class"
    THEN [i \in 1..Len(c.methods) |-> MethodKey(c, c.methods[i])]
    ELSE <<c.name>>

\* keys of all leaf components of the outline, in declaration order
LeafKeys(outline) ==
    Flatten([i \in 1..Len(outline.components) |-> KeysOf(outline.components[i])])

\* name of the leaf component with key k (the name used in its prompt)
LeafNames(outline) ==
    Flatten([i \in 1..Len(outline.components) |->
               LET c == outline.components[i] IN
               IF c.type = "class"
               THEN [j \in 1..Len(c.methods) |-> c.methods[j].name]
               ELSE <<c.name>>])

Range(seq) == {seq[i] : i \in 1..Len(seq)}

\* component_details is a Python dict: entries in insertion order
Get(details, k) ==
    LET idx == {i \in 1..Len(details) : details[i].key = k}
    IN  IF idx = {} THEN None
        ELSE details[CHOOSE i \in idx : \A j \in idx : j <= i].value

\* --------------------------------------------------------------- Assembler
IndentMutFirstLineOnly(lines) ==
    [i \in 1..Len(lines) |->
        <<lines[i][1] + (IF i = 1 THEN 1 ELSE 0), lines[i][2], lines[i][3]>>]

Indent(lines) ==
    [i \in 1..Len(lines) |-> <<lines[i][1] + 1, lines[i][2], lines[i][3]>>]

\* placeholder for a component without generated code
PlaceholderMutBarePass(c) ==
    << <<0, "def", c.name>> >>
    \o (IF c.description # "" THEN << <<1, "doc", c.description>> >> ELSE <<>>)
    \o <<PassLine>>

Placeholder(c) ==
    << <<0, "def", c.name>> >>
    \o (IF c.description # "" THEN << <<1, "doc", c.description>> >> ELSE <<>>)
    \o <<TodoLine>>

FunctionBlockMutNoFallback(c, details) == Get(details, c.name).code

\* a function's code is looked up under its name
FunctionBlock(c, details) ==
    LET d == Get(details, c.name)
    IN  IF d.ok THEN d.code ELSE Placeholder(c)

MethodBlockMutKeyByName(c, m, details) ==
    LET d == Get(details, m.name)
    IN  IF d.ok THEN Indent(d.code) ELSE Indent(Placeholder(m))

\* a method's code is looked up under ClassName.MethodName
MethodBlock(c, m, details) ==
    LET d == Get(details, MethodKey(c, m))
    IN  IF d.ok THEN Indent(d.code) ELSE Indent(Placeholder(m))

ClassBlock(c, details) ==
    LET doc == IF c.description # ""
               THEN << <<1, "doc", c.description>> >> ELSE <<>>
        initDetailed == Get(details, c.name \o ".__init__").ok
        attrs == IF initDetailed THEN <<>>
                 ELSE [i \in 1..Len(c.attributes) |->
                         <<1, "# attribute", c.attributes[i]>>]
        methods == Flatten([i \in 1..Len(c.methods) |->
                              MethodBlock(c, c.methods[i], details)])
        body == doc \o attrs \o methods
    IN  << <<0, "class", c.name>> >>
        \o (IF body = <<>> THEN <<PassLine>> ELSE body)

ComponentBlock(c, details) ==
    IF c.type = "class" THEN ClassBlock(c, details)
    ELSE FunctionBlock(c, details)

RECURSIVE JoinParts(_)
\* the parts, separated by one empty line
JoinParts(parts) ==
    IF parts = <<>> THEN <<>>
    ELSE IF Len(parts) = 1 THEN Head(parts)
    ELSE Head(parts) \o <<Blank>> \o JoinParts(Tail(parts))

RECURSIVE CollapseFrom(_, _)
\* runs of more than two empty lines are cut to two
CollapseFrom(text, run) ==
    IF text = <<>> THEN <<>>
    ELSE IF Head(text) = Blank
         THEN IF run >= 2 THEN CollapseFrom(Tail(text), run)
              ELSE <<Blank>> \o CollapseFrom(Tail(text), run + 1)
         ELSE <<Head(text)>> \o CollapseFrom(Tail(text), 0)

\* the component blocks in the order of the entries of component_details
cleanupMutKeepsRuns(text) == text

\* the basic cleanup of excessive newlines of the joined text
cleanup(text) == CollapseFrom(text, 0)

ComponentPartsByCompletion(outline, details) ==
    LET comps == outline.components
        Owner(k) == CHOOSE i \in 1..Len(comps) : k \in Range(KeysOf(comps[i]))
        known == SelectSeq(details, LAMBDA e : e.key \in Range(LeafKeys(outline)))
        owners == [i \in 1..Len(known) |-> Owner(known[i].key)]
        first == SelectSeq([i \in 1..Len(owners) |-> <<i, owners[i]>>],
                           LAMBDA p : \A j \in 1..(p[1] - 1) : owners[j] # p[2])
        rest == SelectSeq([i \in 1..Len(comps) |-> i],
                          LAMBDA i : i \notin Range(owners))
    IN  [i \in 1..Len(first) |-> ComponentBlock(comps[first[i][2]], details)]
        \o [i \in 1..Len(rest) |-> ComponentBlock(comps[rest[i]], details)]

\* the component blocks in the order of outline.components
ComponentParts(outline, details) ==
    [i \in 1..Len(outline.components) |->
        ComponentBlock(outline.components[i], details)]

assemble_componentsMutImportsAfter(outline, details) ==
    LET docPart == IF outline.module_docstring # ""
                   THEN << << <<0, "doc", outline.module_docstring>> >> >>
                   ELSE <<>>
        impPart == IF outline.imports # <<>>
                   THEN << [i \in 1..Len(outline.imports) |->
                              <<0, "import", outline.imports[i]>>] >>
                   ELSE <<>>
        mainPart == IF outline.main_execution_block # <<>>
                    THEN <<outline.main_execution_block>> ELSE <<>>
    IN  cleanup(JoinParts(docPart
                          \o ComponentParts(outline, details)
                          \o impPart \o mainPart))

\* _assemble_components(parsed_outline, component_details)
assemble_components(outline, details) ==
    LET docPart == IF outline.module_docstring # ""
                   THEN << << <<0, "doc", outline.module_docstring>> >> >>
                   ELSE <<>>
        impPart == IF outline.imports # <<>>
                   THEN << [i \in 1..Len(outline.imports) |->
                              <<0, "import", outline.imports[i]>>] >>
                   ELSE <<>>
        mainPart == IF outline.main_execution_block # <<>>
                    THEN <<outline.main_execution_block>> ELSE <<>>
    IN  cleanup(JoinParts(docPart \o impPart
                          \o ComponentParts(outline, details)
                          \o mainPart))

\* ------------------------------------------------------------- CodeService
SinglePassContexts == {"NEW_TOOL", "GENERATE_UNIT_TEST_SCAFFOLD"}
HierarchicalContexts == {"EXPERIMENTAL_HIERARCHICAL_OUTLINE",
                         "EXPERIMENTAL_HIERARCHICAL_FULL_TOOL",
                         "HIERARCHICAL_GEN_COMPLETE_TOOL"}
ModifyContexts == {"SELF_FIX_TOOL"}

\* contexts whose code_string generate_code saves to target_path
SaveableContexts == {"NEW_TOOL", "GENERATE_UNIT_TEST_SCAFFOLD",
                     "HIERARCHICAL_GEN_COMPLETE_TOOL"}

NoPath == ""
TargetPath == "out/tool.py"

\* the calls a client can make
Requests ==
    {[method |-> "generate_code", context |-> c, target_path |-> t,
      existing_code |-> FALSE, module_path |-> FALSE, source_exists |-> FALSE]
        : c \in SinglePassContexts \cup HierarchicalContexts \cup {"UNKNOWN"},
          t \in {NoPath, TargetPath}}
    \cup {[method |-> "modify_code", context |-> c, target_path |-> NoPath,
           existing_code |-> e, module_path |-> m, source_exists |-> x]
            : c \in ModifyContexts \cup {"UNKNOWN"}, e \in BOOLEAN,
              m \in BOOLEAN, x \in BOOLEAN}

\* what the LLM can answer to a single-pass or a modification prompt
CodeOutputs ==
    {[empty |-> TRUE, text |-> <<>>],
     [empty |-> FALSE, text |-> GoodCode("tool")],
     [empty |-> FALSE, text |-> <<Fence>> \o GoodCode("tool") \o <<Fence>>]}

NoOutline == [set |-> FALSE, value |-> ObjEmpty]
NoRaw == [set |-> FALSE,
          value |-> [empty |-> TRUE, fenced |-> FALSE, decodes |-> FALSE,
                     obj |-> ObjEmpty]]

VARIABLES
    req,                \* the request (immutable); source_exists says whether
                        \* the self-modification service has the function
    pc,                 \* where the request's task is suspended
    status,             \* result: status
    code_string,        \* result: code_string / modified_code_string
    parsed_outline,     \* result: parsed_outline
    component_details,  \* result: component_details, in insertion order
    saved_to_path,      \* result: saved_to_path
    inflight,           \* component keys whose detail LLM call is in flight
    attempted,          \* component keys whose detail generation was started
    abandoned,          \* LLM calls that were in flight at cancellation
    file,               \* what is stored under target_path
    llm_calls,          \* number of LLM invocations of this request
    write_calls,        \* number of write_to_file calls of this request
    apply_calls,        \* number of edit_function_source_code calls
    cancelled,          \* the request was cancelled
    outline_raw,        \* the LLM's answer to the outline prompt (outline_str)
    other,              \* the request-scoped data of a second request that
                        \* is suspended while this one runs (NoOther: none)
    page                \* the chat page of the web UI: the indicator's
                        \* classes, the script's globals, pending timers
                        \* and fetches (NoPage: no page is open)

vars == <<req, pc, status, code_string, parsed_outline, component_details,
          saved_to_path, inflight, attempted, abandoned, file, llm_calls,
          write_calls, apply_calls, cancelled, outline_raw, other, page>>

\* the request-scoped data of the request that is running
Own ==
    [req |-> req, pc |-> pc, status |-> status, code_string |-> code_string,
     parsed_outline |-> parsed_outline, component_details |-> component_details,
     saved_to_path |-> saved_to_path, inflight |-> inflight,
     attempted |-> attempted, abandoned |-> abandoned, llm_calls |-> llm_calls,
     write_calls |-> write_calls, apply_calls |-> apply_calls,
     cancelled |-> cancelled, outline_raw |-> outline_raw]

\* the request-scoped data of a request r that has not started
Fresh(r) ==
    [req |-> r, pc |-> "start", status |-> "", code_string |-> None,
     parsed_outline |-> NoOutline, component_details |-> <<>>,
     saved_to_path |-> NoPath, inflight |-> {}, attempted |-> {},
     abandoned |-> {}, llm_calls |-> 0, write_calls |-> 0, apply_calls |-> 0,
     cancelled |-> FALSE, outline_raw |-> NoRaw]

\* there is no second request
NoOther == [pc |-> "none"]

\* no chat page is open
NoPage == [classList |-> {}]

result == <<status, code_string, parsed_outline, component_details,
            saved_to_path>>
effects == <<file, write_calls, apply_calls>>
detailState == <<inflight, attempted>>

Init ==
    /\ req \in Requests
    /\ pc = "start"
    /\ status = ""
    /\ code_string = None
    /\ parsed_outline = NoOutline
    /\ component_details = <<>>
    /\ saved_to_path = NoPath
    /\ inflight = {}
    /\ attempted = {}
    /\ abandoned = {}
    /\ file = None
    /\ llm_calls = 0
    /\ write_calls = 0
    /\ apply_calls = 0
    /\ cancelled = FALSE
    /\ outline_raw = NoRaw
    /\ other = NoOther
    /\ page = NoPage

WantsSaveMutNoPathCheck(r) == r.context \in SaveableContexts

\* step 5 of generate_code: target_path provided and context suitable
WantsSave(r) == r.target_path # NoPath /\ r.context \in SaveableContexts

\* return the result, saving code first when the request asks for it
Finish(code, st) ==
    /\ code_string' = code
    /\ status' = st
    /\ IF code.ok /\ WantsSave(req)
       THEN /\ pc' = "saving"
            /\ write_calls' = write_calls + 1
       ELSE /\ pc' = "done"
            /\ UNCHANGED write_calls

\* return an error result without code
Fail(st) ==
    /\ pc' = "done"
    /\ status' = st
    /\ code_string' = None

\* generate_code with a context it does not know
unsupported_context ==
    /\ pc = "start"
    /\ req.context \notin
         (IF req.method = "generate_code"
          THEN SinglePassContexts \cup HierarchicalContexts
          ELSE ModifyContexts)
    /\ Fail("ERROR_UNSUPPORTED_CONTEXT")
    /\ UNCHANGED <<page, other, req, parsed_outline, component_details, saved_to_path,
                   detailState, abandoned, effects, llm_calls, cancelled, outline_raw>>

\* single-pass contexts: format the prompt and invoke the LLM
single_invoke ==
    /\ pc = "start"
    /\ req.method = "generate_code"
    /\ req.context \in SinglePassContexts
    /\ pc' = "llm_single"
    /\ llm_calls' = llm_calls + 1
    /\ UNCHANGED <<page, other, req, result, detailState, abandoned, effects, cancelled, outline_raw>>

single_returnMutRaisesOnNoOutput(out) ==
    /\ pc = "llm_single"
    /\ IF out.empty
       THEN pc' = "raised" /\ UNCHANGED <<status, code_string, write_calls>>
       ELSE Finish(Code(clean(out.text)), "SUCCESS_CODE_GENERATED")
    /\ UNCHANGED <<page, other, req, parsed_outline, component_details, saved_to_path,
                   detailState, abandoned, file, apply_calls, llm_calls,
                   cancelled, outline_raw>>

\* single-pass contexts: the LLM answered
single_return(out) ==
    /\ pc = "llm_single"
    /\ IF out.empty
       THEN Fail("ERROR_LLM_NO_OUTPUT") /\ UNCHANGED write_calls
       ELSE Finish(Code(clean(out.text)), "SUCCESS_CODE_GENERATED")
    /\ UNCHANGED <<page, other, req, parsed_outline, component_details, saved_to_path,
                   detailState, abandoned, file, apply_calls, llm_calls,
                   cancelled, outline_raw>>

SaveErrorStatusMutAlwaysAssembled(r) == "ERROR_SAVING_ASSEMBLED_CODE"

\* the status of a request whose file write failed
SaveErrorStatus(r) ==
    IF r.context = "HIERARCHICAL_GEN_COMPLETE_TOOL"
    THEN "ERROR_SAVING_ASSEMBLED_CODE" ELSE "ERROR_SAVING_CODE"

SavedPathMutOnFailure(r, ok) == r.target_path

\* saved_to_path of the result: the path the code was saved to, if the
\* write succeeded
SavedPath(r, ok) == IF ok THEN r.target_path ELSE NoPath

write_returnMutDropsCode(ok) ==
    /\ pc = "saving"
    /\ pc' = "done"
    /\ saved_to_path' = SavedPath(req, ok)
    /\ IF ok
       THEN /\ file' = code_string
            /\ UNCHANGED <<status, code_string>>
       ELSE /\ status' = SaveErrorStatus(req)
            /\ code_string' = None
            /\ UNCHANGED file
    /\ UNCHANGED <<page, other, req, parsed_outline, component_details, detailState,
                   abandoned, write_calls, apply_calls, llm_calls, cancelled, outline_raw>>

\* fs_utils.write_to_file returned
write_return(ok) ==
    /\ pc = "saving"
    /\ pc' = "done"
    /\ saved_to_path' = SavedPath(req, ok)
    /\ IF ok
       THEN /\ file' = code_string
            /\ UNCHANGED status
       ELSE /\ status' = SaveErrorStatus(req)
            /\ UNCHANGED file
    /\ UNCHANGED <<page, other, req, code_string, parsed_outline, component_details,
                   detailState, abandoned, write_calls, apply_calls, llm_calls,
                   cancelled, outline_raw>>

\* hierarchical contexts: format the outline prompt and invoke the LLM
outline_invoke ==
    /\ pc = "start"
    /\ req.method = "generate_code"
    /\ req.context \in HierarchicalContexts
    /\ pc' = "llm_outline"
    /\ llm_calls' = llm_calls + 1
    /\ UNCHANGED <<page, other, req, result, detailState, abandoned, effects, cancelled, outline_raw>>

\* status of a failed outline step (EXPERIMENTAL_HIERARCHICAL_OUTLINE)
OutlineErrorStatus(raw) ==
    IF raw.empty THEN "ERROR_LLM_NO_OUTLINE" ELSE "ERROR_OUTLINE_PARSING"

outline_returnMutIgnoresFailure(raw) ==
    /\ pc = "llm_outline"
    /\ outline_raw' = [set |-> TRUE, value |-> raw]
    /\ parsed_outline' = [set |-> TRUE, value |-> raw.obj]
    /\ pc' = "details"
    /\ UNCHANGED <<status, code_string>>
    /\ UNCHANGED <<page, other, req, component_details, saved_to_path, detailState,
                   abandoned, effects, llm_calls, cancelled>>

\* hierarchical contexts: the LLM answered the outline prompt
outline_return(raw) ==
    /\ pc = "llm_outline"
    /\ outline_raw' = [set |-> TRUE, value |-> raw]
    /\ IF raw.empty \/ ~parse(raw).ok
       THEN /\ Fail(OutlineErrorStatus(raw))
            /\ UNCHANGED parsed_outline
       ELSE /\ parsed_outline' = [set |-> TRUE, value |-> parse(raw).outline]
            /\ IF req.context = "EXPERIMENTAL_HIERARCHICAL_OUTLINE"
               THEN /\ pc' = "done"
                    /\ status' = "SUCCESS_OUTLINE_GENERATED"
                    /\ code_string' = None
               ELSE /\ pc' = "details"
                    /\ UNCHANGED <<status, code_string>>
    /\ UNCHANGED <<page, other, req, component_details, saved_to_path, detailState,
                   abandoned, effects, llm_calls, cancelled>>

\* the name of the leaf component with key k
NameOf(outline, k) ==
    LeafNames(outline)[CHOOSE i \in 1..Len(LeafKeys(outline)) :
                          LeafKeys(outline)[i] = k]

\* detail generation of one leaf component starts: its LLM call is sent
detail_invoke(k) ==
    /\ pc = "details"
    /\ k \in Range(LeafKeys(parsed_outline.value)) \ attempted
    /\ Cardinality(inflight) < MaxConcurrent
    /\ inflight' = inflight \cup {k}
    /\ attempted' = attempted \cup {k}
    /\ llm_calls' = llm_calls + 1
    /\ UNCHANGED <<page, other, req, pc, result, abandoned, effects, cancelled, outline_raw>>

detail_returnMutFailureCancelsOthers(k, out) ==
    /\ pc = "details"
    /\ k \in inflight
    /\ component_details' =
         Append(component_details,
                [key |-> k, value |-> generate_detail_for_component(out)])
    /\ IF generate_detail_for_component(out).ok
       THEN /\ inflight' = inflight \ {k}
            /\ UNCHANGED attempted
       ELSE /\ inflight' = {}
            /\ attempted' = Range(LeafKeys(parsed_outline.value))
    /\ UNCHANGED <<page, other, req, pc, status, code_string, parsed_outline, saved_to_path,
                   abandoned, effects, llm_calls, cancelled, outline_raw>>

\* the detail LLM call of component k answered: its entry is recorded
detail_return(k, out) ==
    /\ pc = "details"
    /\ k \in inflight
    /\ component_details' =
         Append(component_details,
                [key |-> k, value |-> generate_detail_for_component(out)])
    /\ inflight' = inflight \ {k}
    /\ UNCHANGED <<page, other, req, pc, status, code_string, parsed_outline, saved_to_path,
                   attempted, abandoned, effects, llm_calls, cancelled, outline_raw>>

\* every leaf component has code in component_details
AllDetailed(outline, details) ==
    \A k \in Range(LeafKeys(outline)) : Get(details, k).ok

HierarchicalStatusMutAlwaysSuccess(outline, details) ==
    "SUCCESS_HIERARCHICAL_ASSEMBLED"

\* status of HIERARCHICAL_GEN_COMPLETE_TOOL after assembly
HierarchicalStatus(outline, details) ==
    IF AllDetailed(outline, details) THEN "SUCCESS_HIERARCHICAL_ASSEMBLED"
    ELSE "PARTIAL_HIERARCHICAL_ASSEMBLED"

details_doneMutNoTryExcept(raised) ==
    /\ pc = "details"
    /\ inflight = {}
    /\ attempted = Range(LeafKeys(parsed_outline.value))
    /\ IF req.context = "HIERARCHICAL_GEN_COMPLETE_TOOL"
       THEN IF raised
            THEN /\ pc' = "raised"
                 /\ UNCHANGED <<status, code_string, write_calls>>
            ELSE Finish(Code(assemble_components(parsed_outline.value,
                                                 component_details)),
                        HierarchicalStatus(parsed_outline.value,
                                           component_details))
       ELSE /\ pc' = "done"
            /\ code_string' = None
            /\ status' = IF AllDetailed(parsed_outline.value, component_details)
                         THEN "SUCCESS_HIERARCHICAL_DETAILS_GENERATED"
                         ELSE "PARTIAL_HIERARCHICAL_DETAILS_GENERATED"
            /\ UNCHANGED write_calls
    /\ UNCHANGED <<page, other, req, parsed_outline, component_details, saved_to_path,
                   detailState, abandoned, file, apply_calls, llm_calls,
                   cancelled, outline_raw>>

\* all component details are in: assemble (COMPLETE_TOOL) and return.
\* The design document speaks of a "partial success status" of FULL_TOOL
\* and does not name it; the two ..._DETAILS_GENERATED names stand for it.
\* The call of _assemble_components is wrapped in try-except; raised says
\* that an exception came out of it (the algorithm modelled above has no
\* failing input, so the exception is an input of this step).
details_done(raised) ==
    /\ pc = "details"
    /\ inflight = {}
    /\ attempted = Range(LeafKeys(parsed_outline.value))
    /\ IF req.context = "HIERARCHICAL_GEN_COMPLETE_TOOL"
       THEN IF raised
            THEN Fail("ERROR_ASSEMBLY_FAILED") /\ UNCHANGED write_calls
            ELSE Finish(Code(assemble_components(parsed_outline.value,
                                                 component_details)),
                        HierarchicalStatus(parsed_outline.value,
                                           component_details))
       ELSE /\ pc' = "done"
            /\ code_string' = None
            /\ status' = IF AllDetailed(parsed_outline.value, component_details)
                         THEN "SUCCESS_HIERARCHICAL_DETAILS_GENERATED"
                         ELSE "PARTIAL_HIERARCHICAL_DETAILS_GENERATED"
            /\ UNCHANGED write_calls
    /\ UNCHANGED <<page, other, req, parsed_outline, component_details, saved_to_path,
                   detailState, abandoned, file, apply_calls, llm_calls,
                   cancelled, outline_raw>>

modify_invokeMutSkipsFetchCheck ==
    /\ pc = "start"
    /\ req.method = "modify_code"
    /\ req.context \in ModifyContexts
    /\ pc' = "llm_modify"
    /\ llm_calls' = llm_calls + 1
    /\ UNCHANGED <<status, code_string>>
    /\ UNCHANGED <<page, other, req, parsed_outline, component_details, saved_to_path,
                   detailState, abandoned, effects, cancelled, outline_raw>>

\* modify_code: get the original code (fetching it through the
\* self-modification service when existing_code is not given), then invoke
\* the LLM
modify_invoke ==
    /\ pc = "start"
    /\ req.method = "modify_code"
    /\ req.context \in ModifyContexts
    /\ IF ~req.existing_code /\ ~(req.module_path /\ req.source_exists)
       THEN /\ Fail("ERROR_NO_ORIGINAL_CODE")
            /\ UNCHANGED llm_calls
       ELSE /\ pc' = "llm_modify"
            /\ llm_calls' = llm_calls + 1
            /\ UNCHANGED <<status, code_string>>
    /\ UNCHANGED <<page, other, req, parsed_outline, component_details, saved_to_path,
                   detailState, abandoned, effects, cancelled, outline_raw>>

modify_returnMutAppliesUnchecked(out, applied) ==
    /\ pc = "llm_modify"
    /\ pc' = "done"
    /\ IF out.empty
       THEN /\ status' = "ERROR_LLM_NO_SUGGESTION"
            /\ code_string' = None
            /\ apply_calls' = apply_calls + 1
            /\ UNCHANGED file
       ELSE /\ code_string' = Code(clean(out.text))
            /\ IF req.module_path
               THEN /\ apply_calls' = apply_calls + 1
                    /\ file' = IF applied THEN Code(clean(out.text)) ELSE file
                    /\ status' = IF applied THEN "SUCCESS_CODE_GENERATED"
                                 ELSE "ERROR_APPLYING_CHANGE"
               ELSE /\ status' = "SUCCESS_CODE_GENERATED"
                    /\ UNCHANGED <<file, apply_calls>>
    /\ UNCHANGED <<page, other, req, parsed_outline, component_details, saved_to_path,
                   detailState, abandoned, write_calls, llm_calls, cancelled, outline_raw>>

\* modify_code: the LLM answered; clean, then apply the change through the
\* self-modification service when module_path/function_name are given
modify_return(out, applied) ==
    /\ pc = "llm_modify"
    /\ pc' = "done"
    /\ IF out.empty
       THEN /\ status' = "ERROR_LLM_NO_SUGGESTION"
            /\ code_string' = None
            /\ UNCHANGED <<file, apply_calls>>
       ELSE /\ code_string' = Code(clean(out.text))
            /\ IF req.module_path
               THEN /\ apply_calls' = apply_calls + 1
                    /\ file' = IF applied THEN Code(clean(out.text)) ELSE file
                    /\ status' = IF applied THEN "SUCCESS_CODE_GENERATED"
                                 ELSE "ERROR_APPLYING_CHANGE"
               ELSE /\ status' = "SUCCESS_CODE_GENERATED"
                    /\ UNCHANGED <<file, apply_calls>>
    /\ UNCHANGED <<page, other, req, parsed_outline, component_details, saved_to_path,
                   detailState, abandoned, write_calls, llm_calls, cancelled, outline_raw>>

\* states in which the request's task is suspended on an LLM call or on I/O
Suspended == {"llm_single", "llm_outline", "details", "saving", "llm_modify"}

\* the LLM calls in flight
InFlightCalls ==
    IF pc \in {"llm_single", "llm_outline", "llm_modify"} THEN {"main"}
    ELSE IF pc = "details" THEN inflight ELSE {}

\* the enclosing request is cancelled or times out
cancel ==
    /\ pc \in Suspended
    /\ cancelled' = TRUE
    /\ abandoned' = InFlightCalls
    /\ inflight' = {}
    /\ Fail("CANCELLED")
    /\ UNCHANGED <<page, other, req, parsed_outline, component_details, saved_to_path,
                   attempted, effects, llm_calls, outline_raw>>

late_answerMutUsesResult(k) ==
    /\ k \in abandoned
    /\ abandoned' = abandoned \ {k}
    /\ component_details' = Append(component_details,
                                   [key |-> k, value |-> Code(GoodCode(k))])
    /\ UNCHANGED <<page, other, req, pc, status, code_string, parsed_outline, saved_to_path,
                   detailState, effects, llm_calls, cancelled, outline_raw>>

\* an abandoned LLM call answers after the cancellation: it is discarded
late_answer(k) ==
    /\ k \in abandoned
    /\ abandoned' = abandoned \ {k}
    /\ UNCHANGED <<page, other, req, pc, result, detailState, effects, llm_calls, cancelled, outline_raw>>

AllLeafKeys == UNION {Range(LeafKeys(o)) : o \in {x \in Objects : ValidOutline(x)}}

Next ==
    \/ unsupported_context
    \/ single_invoke
    \/ \E out \in CodeOutputs : single_return(out)
    \/ \E ok \in BOOLEAN : write_return(ok)
    \/ outline_invoke
    \/ \E raw \in OutlineOutputs : outline_return(raw)
    \/ \E k \in AllLeafKeys : detail_invoke(k)
    \/ \E k \in inflight :
         \E out \in DetailOutputs(NameOf(parsed_outline.value, k)) :
             detail_return(k, out)
    \/ \E raised \in BOOLEAN : details_done(raised)
    \/ modify_invoke
    \/ \E out \in CodeOutputs, applied \in BOOLEAN : modify_return(out, applied)
    \/ cancel
    \/ \E k \in abandoned : late_answer(k)

Spec == Init /\ [][Next]_vars

\* the steps of a request that is not cancelled. details_done(TRUE) and
\* details_done(FALSE) can be taken in the same states and either one ends
\* the detail phase, so that weak fairness of the first is weak fairness of
\* the step; its enabling is decided without assembling the text.
Progress ==
    \/ unsupported_context
    \/ single_invoke
    \/ \E out \in CodeOutputs : single_return(out)
    \/ \E ok \in BOOLEAN : write_return(ok)
    \/ outline_invoke
    \/ \E raw \in OutlineOutputs : outline_return(raw)
    \/ \E k \in AllLeafKeys : detail_invoke(k)
    \/ \E k \in inflight :
         \E out \in DetailOutputs(NameOf(parsed_outline.value, k)) :
             detail_return(k, out)
    \/ details_done(TRUE)
    \/ modify_invoke
    \/ \E out \in CodeOutputs, applied \in BOOLEAN : modify_return(out, applied)

\* every LLM call and every file write returns (the calls are awaited and
\* answer with text, with nothing or with an error), and the steps between
\* two awaits are plain code: a step that can be taken is taken.
\* Cancellation and the late answers of abandoned calls may never happen.
FairSpec == Spec /\ WF_vars(Progress)

\* ------------------------------------------- parser and assembler alone
\* OutlineParser.parse and _assemble_components applied to inputs that the
\* pipeline above does not produce: results maps with missing keys, keys
\* mapped to None, keys of no component, and entries written twice.

\* how many entries are put into the results map
MaxEntries == 3

\* two functions of the same name
ObjDup == Obj(AllKeys, "", <<>>, <<Fn("f", "first"), Fn("f", "second")>>, <<>>)
\* a class with attributes and nothing else, after a function
ObjAttrOnlyClass ==
    Obj(AllKeys, "", <<"os">>,
        <<Fn("f", ""), Cls("A", "", <<"x: int">>, <<>>)>>, <<>>)
\* a class with a docstring and nothing else
ObjDocOnlyClass ==
    Obj(AllKeys, "module doc", <<>>, <<Cls("B", "a class", <<>>, <<>>)>>,
        << <<0, "B()", "">> >>)

AsmObjects == {ObjEmpty, ObjFnNoName, ObjTwo, ObjClass, ObjEmptyClass, ObjDup,
               ObjAttrOnlyClass, ObjDocOnlyClass}

AsmOutlineOutputs ==
    {[empty |-> FALSE, fenced |-> FALSE, decodes |-> FALSE, obj |-> ObjEmpty]}
    \cup {[empty |-> FALSE, fenced |-> FALSE, decodes |-> TRUE, obj |-> o]
            : o \in AsmObjects}

\* keys that name no component of any outline
StrayKeys == {"m", "D.m"}

\* code generated for the component with key k: its second line carries k
CodeFor(k, name) == << <<0, "def", name>>, <<1, "return", k>> >>
SpacedCodeFor(k, name) ==
    << <<0, "def", name>>, <<1, "return", k>>, Blank, Blank, Blank,
       <<0, "# end of", k>> >>

\* the name in the def line of code stored under key k
DefName(outline, k) ==
    IF k \in Range(LeafKeys(outline)) THEN NameOf(outline, k)
    ELSE IF k = "D.m" THEN "m" ELSE k

\* the values a results map can hold under key k
EntryValues(outline, k) ==
    {None, Code(CodeFor(k, DefName(outline, k))),
     Code(SpacedCodeFor(k, DefName(outline, k)))}

AsmRequest ==
    [method |-> "assemble", context |-> "NONE", target_path |-> NoPath,
     existing_code |-> FALSE, module_path |-> FALSE, source_exists |-> FALSE]

InitAsm ==
    /\ req = AsmRequest
    /\ pc = "parse"
    /\ outline_raw \in {[set |-> TRUE, value |-> raw] : raw \in AsmOutlineOutputs}
    /\ status = ""
    /\ code_string = None
    /\ parsed_outline = NoOutline
    /\ component_details = <<>>
    /\ saved_to_path = NoPath
    /\ inflight = {}
    /\ attempted = {}
    /\ abandoned = {}
    /\ file = None
    /\ llm_calls = 0
    /\ write_calls = 0
    /\ apply_calls = 0
    /\ cancelled = FALSE
    /\ other = NoOther
    /\ page = NoPage

asmFrame == <<page, other, req, status, saved_to_path, inflight, attempted, abandoned, file,
              llm_calls, write_calls, apply_calls, cancelled, outline_raw>>

\* OutlineParser.parse is applied to the raw text
asm_parse ==
    /\ pc = "parse"
    /\ IF parse(outline_raw.value).ok
       THEN /\ parsed_outline' =
                 [set |-> TRUE, value |-> parse(outline_raw.value).outline]
            /\ pc' = "fill"
       ELSE /\ pc' = "rejected"
            /\ UNCHANGED parsed_outline
    /\ UNCHANGED <<code_string, component_details>>
    /\ UNCHANGED asmFrame

\* one entry is written into the results map
asm_put(k, v) ==
    /\ pc = "fill"
    /\ Len(component_details) < MaxEntries
    /\ component_details' = Append(component_details, [key |-> k, value |-> v])
    /\ UNCHANGED <<pc, code_string, parsed_outline>>
    /\ UNCHANGED asmFrame

\* _assemble_components is applied to the outline and the results map
asm_assemble ==
    /\ pc = "fill"
    /\ code_string' = Code(assemble_components(parsed_outline.value,
                                               component_details))
    /\ pc' = "assembled"
    /\ UNCHANGED <<parsed_outline, component_details>>
    /\ UNCHANGED asmFrame

NextAsm ==
    \/ asm_parse
    \/ \E k \in Range(LeafKeys(parsed_outline.value)) \cup StrayKeys :
         \E v \in EntryValues(parsed_outline.value, k) : asm_put(k, v)
    \/ asm_assemble

SpecAsm == InitAsm /\ [][NextAsm]_vars

\* ------------------------------------------ two requests on one CodeService
\* Two requests run on the same CodeService and write to the same path.
\* One of them runs at a time (one event loop); the data of the other one
\* is kept in other. What is stored under the path is shared.
Requests2 ==
    {r \in Requests : /\ r.method = "generate_code"
                      /\ r.context \in {"NEW_TOOL", "HIERARCHICAL_GEN_COMPLETE_TOOL"}
                      /\ r.target_path = TargetPath}

\* the outline answers of the two-request system: none, one that does not
\* decode, the empty object and the outline of one function
Narrow ==
    outline_raw.set =>
        \/ outline_raw.value.empty
        \/ /\ ~outline_raw.value.fenced
           /\ outline_raw.value.obj \in {ObjEmpty, ObjAdd}

Init2 ==
    /\ req \in Requests2
    /\ other \in {Fresh(r) : r \in Requests2}
    /\ pc = "start"
    /\ status = ""
    /\ code_string = None
    /\ parsed_outline = NoOutline
    /\ component_details = <<>>
    /\ saved_to_path = NoPath
    /\ inflight = {}
    /\ attempted = {}
    /\ abandoned = {}
    /\ file = None
    /\ llm_calls = 0
    /\ write_calls = 0
    /\ apply_calls = 0
    /\ cancelled = FALSE
    /\ outline_raw = NoRaw
    /\ page = NoPage

switchMutSharedDetails ==
    /\ other # NoOther
    /\ other' = Own
    /\ req' = other.req
    /\ pc' = other.pc
    /\ status' = other.status
    /\ code_string' = other.code_string
    /\ parsed_outline' = other.parsed_outline
    /\ saved_to_path' = other.saved_to_path
    /\ inflight' = other.inflight
    /\ attempted' = other.attempted
    /\ abandoned' = other.abandoned
    /\ llm_calls' = other.llm_calls
    /\ write_calls' = other.write_calls
    /\ apply_calls' = other.apply_calls
    /\ cancelled' = other.cancelled
    /\ outline_raw' = other.outline_raw
    /\ UNCHANGED <<page, file, component_details>>

\* the event loop suspends the running request and resumes the other one:
\* everything a request holds is local to its call of generate_code
\* (CodeService keeps only its two collaborators), the file is not
switch ==
    /\ other # NoOther
    /\ other' = Own
    /\ req' = other.req
    /\ pc' = other.pc
    /\ status' = other.status
    /\ code_string' = other.code_string
    /\ parsed_outline' = other.parsed_outline
    /\ component_details' = other.component_details
    /\ saved_to_path' = other.saved_to_path
    /\ inflight' = other.inflight
    /\ attempted' = other.attempted
    /\ abandoned' = other.abandoned
    /\ llm_calls' = other.llm_calls
    /\ write_calls' = other.write_calls
    /\ apply_calls' = other.apply_calls
    /\ cancelled' = other.cancelled
    /\ outline_raw' = other.outline_raw
    /\ UNCHANGED <<page, file>>

\* a step of the running request, or a switch to the other request
Next2 ==
    \/ Next /\ Narrow'
    \/ switch

TwoSpec == Init2 /\ [][Next2]_vars

\* ------------------------------------------------------------- properties
Complete == "HIERARCHICAL_GEN_COMPLETE_TOOL"

\* the request returned, or only the save is left: assembly is over
Assembled ==
    /\ req.method = "generate_code" /\ req.context = Complete
    /\ pc \in {"saving", "done"}
    /\ parsed_outline.set /\ code_string.ok

\* the header lines (class and def lines) of a text, in text order
Headers(text) == SelectSeq(text, LAMBDA l : l[2] \in {"def", "class"})

\* the header lines the outline declares, in declaration order
DeclaredHeaders(outline) ==
    Flatten([i \in 1..Len(outline.components) |->
               LET c == outline.components[i] IN
               IF c.type = "class"
               THEN << <<0, "class", c.name>> >>
                    \o [j \in 1..Len(c.methods) |-> <<1, "def", c.methods[j].name>>]
               ELSE << <<0, "def", c.name>> >>])

\* the same entries, populated in the outline's declaration order
InDeclarationOrder(outline, details) ==
    [i \in 1..Len(LeafKeys(outline)) |->
        [key |-> LeafKeys(outline)[i], value |-> Get(details, LeafKeys(outline)[i])]]

\* C1: whatever the order in which the component details completed, the
\* assembled text is the one obtained from the same entries populated in
\* declaration order, and its components appear in declaration order.
C1_AssembleIgnoresCompletionOrder ==
    Assembled =>
        /\ code_string.code =
             assemble_components(parsed_outline.value,
                 InDeclarationOrder(parsed_outline.value, component_details))
        /\ Headers(code_string.code) = DeclaredHeaders(parsed_outline.value)

\* a request was assembled whose details completed against declaration order
C1_Witness ==
    /\ Assembled /\ pc = "done"
    /\ Len(component_details) >= 2
    /\ component_details[1].key = LeafKeys(parsed_outline.value)[2]
    /\ component_details[1].value.ok

\* C2 as stated: once assembly ran, the final status is SUCCESS_... exactly
\* when every leaf component has code, and PARTIAL_... when one is missing.
C2_StatusFollowsDetailsAlways ==
    (Assembled /\ pc = "done" /\ ~cancelled) =>
        /\ status = "SUCCESS_HIERARCHICAL_ASSEMBLED"
             <=> AllDetailed(parsed_outline.value, component_details)
        /\ ~AllDetailed(parsed_outline.value, component_details)
             => status = "PARTIAL_HIERARCHICAL_ASSEMBLED"

\* C2 (amended): the same, for requests whose file write did not fail and
\* which were not cancelled.
C2_StatusFollowsDetails ==
    (Assembled /\ pc = "done" /\ ~cancelled
        /\ status # "ERROR_SAVING_ASSEMBLED_CODE") =>
        /\ status = "SUCCESS_HIERARCHICAL_ASSEMBLED"
             <=> AllDetailed(parsed_outline.value, component_details)
        /\ status = "PARTIAL_HIERARCHICAL_ASSEMBLED"
             <=> ~AllDetailed(parsed_outline.value, component_details)

\* a request ended PARTIAL_... with one component generated and one missing
C2_Witness ==
    /\ Assembled /\ pc = "done"
    /\ status = "PARTIAL_HIERARCHICAL_ASSEMBLED"
    /\ \E i \in 1..Len(component_details) : component_details[i].value.ok
    /\ saved_to_path = TargetPath

IsTodo(line) == line[2] = TodoLine[2]

\* C3: with code for every component key, the assembled text has no
\* 'TODO: Implement' placeholder line.
C3_CompleteMapNoPlaceholder ==
    (Assembled /\ AllDetailed(parsed_outline.value, component_details)) =>
        \A i \in 1..Len(code_string.code) : ~IsTodo(code_string.code[i])

\* an outline with a class and a function was assembled from a complete map
C3_Witness ==
    /\ Assembled
    /\ AllDetailed(parsed_outline.value, component_details)
    /\ \E i \in 1..Len(parsed_outline.value.components) :
          /\ parsed_outline.value.components[i].type = "class"
          /\ parsed_outline.value.components[i].methods # <<>>

\* the outline step of a hierarchical request is over and failed
OutlineFailed ==
    /\ req.method = "generate_code" /\ req.context \in HierarchicalContexts
    /\ outline_raw.set
    /\ outline_raw.value.empty \/ ~outline_raw.value.decodes

NothingAfterOutline ==
    /\ pc = "done"
    /\ ~code_string.ok
    /\ attempted = {} /\ component_details = <<>>
    /\ llm_calls = 1
    /\ write_calls = 0 /\ file = None /\ saved_to_path = NoPath

DetailsOver ==
    /\ req.method = "generate_code"
    /\ req.context \in {"EXPERIMENTAL_HIERARCHICAL_FULL_TOOL", Complete}
    /\ parsed_outline.set
    /\ pc \in {"saving", "done"}
    /\ ~cancelled

\* C5: when the detail phase is over (assembly starts), detail generation
\* was attempted for every leaf component and each has exactly one entry,
\* code or failure, whatever happened to the others.
C5_EveryComponentAttempted ==
    DetailsOver =>
        /\ attempted = Range(LeafKeys(parsed_outline.value))
        /\ llm_calls = 1 + Len(LeafKeys(parsed_outline.value))
        /\ Len(component_details) = Len(LeafKeys(parsed_outline.value))
        /\ \A k \in Range(LeafKeys(parsed_outline.value)) :
              \E i \in 1..Len(component_details) : component_details[i].key = k

\* a component failed first and a later one was still generated
C5_Witness ==
    /\ DetailsOver
    /\ \E i \in 1..Len(component_details) :
          /\ ~component_details[i].value.ok
          /\ \E j \in (i + 1)..Len(component_details) :
                component_details[j].value.ok

\* the step in which write_to_file returns a failure
WriteFails ==
    /\ pc = "saving" /\ pc' = "done"
    /\ ~cancelled'
    /\ saved_to_path' = NoPath

\* C6: a failed file write gives ERROR_SAVING_CODE (single-pass) or
\* ERROR_SAVING_ASSEMBLED_CODE (hierarchical) and leaves code_string the
\* code that was generated before the write.
C6_SaveFailureKeepsCode ==
    [][WriteFails =>
         /\ code_string.ok /\ code_string' = code_string
         /\ status' = IF req.context \in SinglePassContexts
                      THEN "ERROR_SAVING_CODE"
                      ELSE "ERROR_SAVING_ASSEMBLED_CODE"]_vars

\* a request returned after its write failed
C6_Witness ==
    /\ pc = "done" /\ write_calls = 1 /\ ~cancelled
    /\ saved_to_path = NoPath /\ file = None
    /\ req.context = Complete

\* C7: write_to_file is called only with a target path, a saveable context
\* and a produced code string.
C7_WriteOnlyWhenSaveable ==
    [][write_calls' # write_calls =>
         /\ req.target_path # NoPath
         /\ req.context \in {"NEW_TOOL", "GENERATE_UNIT_TEST_SCAFFOLD",
                             "HIERARCHICAL_GEN_COMPLETE_TOOL"}
         /\ code_string'.ok
         /\ write_calls = 0]_vars

\* a request wrote its code to the target path
C7_Witness ==
    /\ write_calls = 1 /\ pc = "done"
    /\ saved_to_path = TargetPath /\ file = code_string

SuccessStatuses ==
    {"SUCCESS_CODE_GENERATED", "SUCCESS_OUTLINE_GENERATED",
     "SUCCESS_HIERARCHICAL_DETAILS_GENERATED", "SUCCESS_HIERARCHICAL_ASSEMBLED",
     "PARTIAL_HIERARCHICAL_DETAILS_GENERATED", "PARTIAL_HIERARCHICAL_ASSEMBLED"}

\* C8: once a request is cancelled it has a non-success status, and from
\* then on nothing is written or applied and the result does not change,
\* whatever the abandoned LLM calls answer.
C8_CancelledRequestIsInert ==
    [][/\ cancelled' => (pc' = "done" /\ status' \notin SuccessStatuses
                         /\ ~code_string'.ok)
       /\ cancelled' => (file' = file /\ write_calls' = write_calls
                         /\ apply_calls' = apply_calls
                         /\ saved_to_path' = saved_to_path
                         /\ component_details' = component_details
                         /\ parsed_outline' = parsed_outline)
       /\ cancelled => result' = result]_vars

\* detail calls in flight at the cancellation answered afterwards
C8_Witness ==
    /\ cancelled /\ abandoned = {}
    /\ Cardinality(attempted) > Len(component_details)
    /\ Len(component_details) > 0

\* modify_code has no existing_code and cannot fetch the original
NoOriginalCode ==
    /\ req.method = "modify_code" /\ req.context \in ModifyContexts
    /\ ~req.existing_code
    /\ ~(req.module_path /\ req.source_exists)

\* C9: modify_code without existing_code whose source cannot be fetched
\* ends ERROR_NO_ORIGINAL_CODE, with no LLM call and no change applied.
C9_NoOriginalCode ==
    (NoOriginalCode /\ pc # "start") =>
        /\ pc = "done" /\ status = "ERROR_NO_ORIGINAL_CODE"
        /\ llm_calls = 0 /\ apply_calls = 0 /\ file = None
        /\ ~code_string.ok

\* module_path/function_name name a function that does not exist
C9_Witness ==
    /\ NoOriginalCode /\ req.module_path /\ ~req.source_exists
    /\ pc = "done"

\* the decoded object is empty, has no components, or has a component or a
\* class method without a name
Nameless(c) == "name" \notin c.keys \/ c.name = ""
Rejectable(o) ==
    \/ o.keys = {}
    \/ ("components" \in o.keys /\ o.components = <<>>)
    \/ \E i \in 1..Len(o.components) :
          \/ Nameless(o.components[i])
          \/ \E j \in 1..Len(o.components[i].methods) :
                Nameless(o.components[i].methods[j])

\* C10: parse gives a ParseError value for the empty object, for an empty
\* components sequence and for a nameless component or method, and the
\* request ends ERROR_OUTLINE_PARSING.
C10_ParseRejects ==
    (outline_raw.set /\ outline_raw.value.decodes
        /\ Rejectable(outline_raw.value.obj)) =>
        /\ ~parse(outline_raw.value).ok
        /\ parse(outline_raw.value).error = "schema"
        /\ pc = "done" /\ status = "ERROR_OUTLINE_PARSING"
        /\ ~parsed_outline.set

\* a class method without a name was rejected
C10_Witness ==
    /\ outline_raw.set /\ outline_raw.value.decodes
    /\ outline_raw.value.obj = ObjMethodNoName
    /\ pc = "done"

\* ------------------------------------------- properties of the assembler
\* _assemble_components returned
AsmReturned == req = AsmRequest /\ pc = "assembled"

IsLine(l) ==
    /\ Len(l) = 3
    /\ l[1] \in 0..2

\* keys of the results map, and those that hold code
KeysIn(details) == {details[i].key : i \in 1..Len(details)}

\* a text with one block for every component the outline declares
WholeText(outline, text) ==
    /\ text # <<>>
    /\ \A i \in 1..Len(text) : IsLine(text[i])
    /\ Headers(text) = DeclaredHeaders(outline)

\* C11: for every parsed outline and every results map (missing keys, keys
\* mapped to None, keys of no component) the assembler returns a text, with
\* one block for every declared component.
C11_AssembleIsTotal ==
    /\ (req = AsmRequest /\ pc = "fill") =>
          WholeText(parsed_outline.value,
                    assemble_components(parsed_outline.value, component_details))
    /\ AsmReturned =>
          (code_string.ok /\ WholeText(parsed_outline.value, code_string.code))

\* assembled from a map with a missing key, a None entry and a stray key
C11_Witness ==
    /\ AsmReturned
    /\ \E k \in Range(LeafKeys(parsed_outline.value)) :
          k \notin KeysIn(component_details)
    /\ \E i \in 1..Len(component_details) :
          /\ component_details[i].key \in Range(LeafKeys(parsed_outline.value))
          /\ ~Get(component_details, component_details[i].key).ok
    /\ KeysIn(component_details) \cap StrayKeys # {}

\* ----------------------------------------- properties of the orchestrator
\* the step in which the assembly of a COMPLETE_TOOL request raises: the
\* detail phase is left without code and without a cancellation
AssemblyRaises ==
    /\ req.context = Complete
    /\ pc = "details" /\ pc' # "details"
    /\ ~cancelled'
    /\ ~code_string'.ok

\* C20: when the assembly step raises, the request returns with status
\* ERROR_ASSEMBLY_FAILED and without code, and no file write is attempted.
C20_AssemblyFailureIsCaught ==
    [][/\ AssemblyRaises =>
            /\ pc' = "done" /\ status' = "ERROR_ASSEMBLY_FAILED"
            /\ write_calls' = 0 /\ file' = None /\ saved_to_path' = NoPath
       /\ status = "ERROR_ASSEMBLY_FAILED" =>
            /\ pc' = "done" /\ status' = status /\ ~code_string'.ok
            /\ write_calls' = 0 /\ file' = None /\ saved_to_path' = NoPath]_vars

\* the assembly of a request with a target path raised
C20_Witness ==
    /\ status = "ERROR_ASSEMBLY_FAILED" /\ pc = "done"
    /\ req.target_path = TargetPath
    /\ component_details # <<>>

\* the statuses a returned result can carry
TerminalStatuses ==
    SuccessStatuses \cup
    {"PARTIAL_HIERARCHICAL_ASSEMBLED", "PARTIAL_HIERARCHICAL_DETAILS_GENERATED",
     "ERROR_UNSUPPORTED_CONTEXT", "ERROR_LLM_NO_OUTPUT", "ERROR_LLM_NO_OUTLINE",
     "ERROR_OUTLINE_PARSING", "ERROR_ASSEMBLY_FAILED", "ERROR_SAVING_CODE",
     "ERROR_SAVING_ASSEMBLED_CODE", "ERROR_NO_ORIGINAL_CODE",
     "ERROR_LLM_NO_SUGGESTION", "ERROR_APPLYING_CHANGE", "CANCELLED"}

\* C12: every request eventually returns; the returned result carries a
\* terminal status; once returned, the request stays returned (one result,
\* no exception afterwards) and its status and code_string never change.
C12_ReturnsOnceForGood ==
    /\ <>(pc = "done")
    /\ [](pc = "done" => status \in TerminalStatuses)
    /\ [][pc = "done" => /\ pc' = "done"
                         /\ status' = status
                         /\ code_string' = code_string]_vars

\* a request whose outline could not be parsed returned an error result
C12_Witness ==
    /\ pc = "done" /\ status = "ERROR_OUTLINE_PARSING"
    /\ llm_calls = 1 /\ ~code_string.ok

\* C14: saved_to_path is set exactly when a target path was given and the
\* file write succeeded, and then it is that path; it is absent without a
\* target path, after a failed write and when the request ended before the
\* write.
C14_SavedPathIffWritten ==
    /\ saved_to_path # NoPath <=> (req.target_path # NoPath /\ file # None)
    /\ saved_to_path # NoPath =>
          /\ saved_to_path = req.target_path
          /\ pc = "done" /\ write_calls = 1 /\ file = code_string
    /\ (pc # "done" \/ req.target_path = NoPath) => saved_to_path = NoPath

\* a request with a target path returned after its write failed
C14_Witness ==
    /\ pc = "done" /\ req.target_path = TargetPath
    /\ write_calls = 1 /\ file = None /\ code_string.ok
    /\ status = "ERROR_SAVING_CODE"

\* ------------------------------------------- properties of the assembler
TopHeaders(text) ==
    SelectSeq(text, LAMBDA l : l[1] = 0 /\ l[2] \in {"def", "class"})

DeclaredTopHeaders(outline) ==
    [i \in 1..Len(outline.components) |->
        <<0, IF outline.components[i].type = "class" THEN "class" ELSE "def",
          outline.components[i].name>>]

\* docstring, imports, components, main block: in this order in the text
BlocksInOrder(outline, text) ==
    LET nDoc == IF outline.module_docstring # "" THEN 1 ELSE 0
        imps == {i \in 1..Len(text) : text[i][2] = "import"}
        heads == {i \in 1..Len(text) :
                     text[i][1] = 0 /\ text[i][2] \in {"def", "class"}}
        main == outline.main_execution_block
        mainStart == Len(text) - Len(main) + 1
    IN  /\ nDoc = 1 => text[1] = <<0, "doc", outline.module_docstring>>
        /\ \A i \in 1..Len(text) :
              (text[i][1] = 0 /\ text[i][2] = "doc") => (nDoc = 1 /\ i = 1)
        /\ SelectSeq(text, LAMBDA l : l[2] = "import")
             = [i \in 1..Len(outline.imports) |-> <<0, "import", outline.imports[i]>>]
        /\ \A i \in imps : i > nDoc /\ \A h \in heads : i < h
        /\ TopHeaders(text) = DeclaredTopHeaders(outline)
        /\ \A h \in heads : h < mainStart
        /\ mainStart >= 1
        /\ SubSeq(text, mainStart, Len(text)) = main

\* C15: the assembled text has the module docstring first, then the
\* imports in outline order, then the top-level components in outline
\* order, then the main block last, whatever the results map holds.
C15_BlockOrder ==
    AsmReturned => BlocksInOrder(parsed_outline.value, code_string.code)

\* all four kinds of block, one component generated and one a placeholder
C15_Witness ==
    /\ AsmReturned
    /\ parsed_outline.value.module_docstring # ""
    /\ Len(parsed_outline.value.imports) = 2
    /\ parsed_outline.value.main_execution_block # <<>>
    /\ Get(component_details, "g").ok
    /\ ~Get(component_details, "f").ok

IsTopHeader(l) == l[1] = 0 /\ l[2] \in {"def", "class"}

\* the line of the text at which the n-th top-level block starts
NthTopHeader(text, n) ==
    CHOOSE p \in 1..Len(text) :
        /\ IsTopHeader(text[p])
        /\ Cardinality({q \in 1..p : IsTopHeader(text[q])}) = n

\* block stands in the text from line p on, and a block boundary follows
BlockAt(text, p, block) ==
    /\ p + Len(block) - 1 <= Len(text)
    /\ SubSeq(text, p, p + Len(block) - 1) = block
    /\ p + Len(block) <= Len(text) => text[p + Len(block)] = Blank

TopFunctions(outline) ==
    {i \in 1..Len(outline.components) : outline.components[i].type = "function"}

\* the placeholder of the claim: signature line, the description as
\* docstring (when the outline gives one), pass  # TODO: Implement
ClaimedPlaceholder(c) ==
    << <<0, "def", c.name>> >>
    \o (IF c.description # "" THEN << <<1, "doc", c.description>> >> ELSE <<>>)
    \o << <<1, "pass  # TODO: Implement", "">> >>

\* C16 as stated: generated code of a top-level function is in the text
\* verbatim, in the function's declaration position; without code there
\* is one placeholder in that position.
C16_FunctionVerbatim ==
    AsmReturned =>
      \A i \in TopFunctions(parsed_outline.value) :
         LET c == parsed_outline.value.components[i]
             d == Get(component_details, c.name)
             p == NthTopHeader(code_string.code, i)
         IN  IF d.ok THEN BlockAt(code_string.code, p, d.code)
             ELSE BlockAt(code_string.code, p, ClaimedPlaceholder(c))

\* C16: generated code of a top-level function is in the text in the
\* function's declaration position, verbatim except that a run of more
\* than two blank lines in it is cut to two; without code there is one
\* placeholder in that position.
C16_FunctionVerbatimUpToBlankRuns ==
    AsmReturned =>
      \A i \in TopFunctions(parsed_outline.value) :
         LET c == parsed_outline.value.components[i]
             d == Get(component_details, c.name)
             p == NthTopHeader(code_string.code, i)
         IN  IF d.ok THEN BlockAt(code_string.code, p, CollapseFrom(d.code, 0))
             ELSE BlockAt(code_string.code, p, ClaimedPlaceholder(c))

\* one function assembled from code with three blank lines in a row, the
\* next one from a placeholder
C16_Witness ==
    /\ AsmReturned
    /\ parsed_outline.value.main_execution_block # <<>>
    /\ Get(component_details, "f").ok
    /\ Get(component_details, "f").code # CollapseFrom(Get(component_details, "f").code, 0)
    /\ "g" \notin KeysIn(component_details)

\* the headers the outline declares, in declaration order, each with the
\* key under which its code is looked up and with its outline entry
Declared(outline) ==
    Flatten([i \in 1..Len(outline.components) |->
               LET c == outline.components[i] IN
               IF c.type = "class"
               THEN << [method |-> FALSE, key |-> c.name, comp |-> c] >>
                    \o [j \in 1..Len(c.methods) |->
                          [method |-> TRUE, key |-> MethodKey(c, c.methods[j]),
                           comp |-> c.methods[j]]]
               ELSE << [method |-> FALSE, key |-> c.name, comp |-> c] >>])

IsHeader(l) == l[2] \in {"def", "class"}

\* the line of the text that holds the n-th header
NthHeader(text, n) ==
    CHOOSE p \in 1..Len(text) :
        /\ IsHeader(text[p])
        /\ Cardinality({q \in 1..p : IsHeader(text[q])}) = n

\* every line one block level deeper
OneLevelDeeper(lines) ==
    [i \in 1..Len(lines) |-> <<lines[i][1] + 1, lines[i][2], lines[i][3]>>]

Stands(text, p, block) ==
    /\ p + Len(block) - 1 <= Len(text)
    /\ SubSeq(text, p, p + Len(block) - 1) = block

\* C17: each method of each class stands in the text, in method order,
\* as the code stored under ClassName.MethodName with every line indented
\* one level, or as an indented placeholder when that key has no code;
\* code stored under any other key is never emitted as a method.
C17_MethodsByQualifiedKey ==
    AsmReturned =>
      /\ Len(Headers(code_string.code)) = Len(Declared(parsed_outline.value))
      /\ \A n \in 1..Len(Declared(parsed_outline.value)) :
            LET e == Declared(parsed_outline.value)[n]
                d == Get(component_details, e.key)
                p == NthHeader(code_string.code, n)
            IN  e.method =>
                  IF d.ok
                  THEN Stands(code_string.code, p, OneLevelDeeper(d.code))
                  ELSE Stands(code_string.code, p,
                              OneLevelDeeper(ClaimedPlaceholder(e.comp)))
      /\ \A i \in 1..Len(code_string.code) :
            code_string.code[i][2] = "return" =>
               /\ code_string.code[i][3] \in Range(LeafKeys(parsed_outline.value))
               /\ code_string.code[i][1] =
                     (IF code_string.code[i][3]
                           \in {parsed_outline.value.components[j].name :
                                  j \in 1..Len(parsed_outline.value.components)}
                      THEN 1 ELSE 2)

\* a class of two methods: the first has code under its qualified key, the
\* second has none, and code is stored under the second's bare name
C17_Witness ==
    /\ AsmReturned
    /\ Get(component_details, "C.__init__").ok
    /\ ~Get(component_details, "C.m").ok
    /\ Get(component_details, "m").ok

\* C18: every outline that parse returns as a success has pairwise
\* distinct component keys (function names and ClassName.MethodName keys).
C18_ParsedKeysDistinct ==
    parsed_outline.set =>
      LET ks == LeafKeys(parsed_outline.value)
      IN  \A i, j \in 1..Len(ks) : i # j => ks[i] # ks[j]

\* lines that are no statement: blank lines and comments
NoStatement == {"", "# attribute", "# end of"}

\* the class block that starts at line p has a statement in its body
BodyHasStatement(text, p) ==
    \E q \in (p + 1)..Len(text) :
        /\ text[q][2] \notin NoStatement
        /\ \A r \in (p + 1)..q : text[r][1] >= 1

\* C19: every class block of the assembled text has at least one statement
\* in its body, also a class without docstring and methods whose only body
\* lines are commented attribute hints.
C19_ClassBodyHasStatement ==
    AsmReturned =>
      \A p \in 1..Len(code_string.code) :
         (code_string.code[p][1] = 0 /\ code_string.code[p][2] = "class")
            => BodyHasStatement(code_string.code, p)

\* ------------------------------------- properties of concurrent requests
\* what the running request holds is what its own calls gave it: one entry
\* of component_details for each of its own detail calls that returned,
\* as many LLM calls as it made itself, a text assembled from its own
\* outline and its own entries, its own target path
OwnResult ==
    /\ KeysIn(component_details) \subseteq attempted
    /\ ~cancelled => Len(component_details) = Cardinality(attempted \ inflight)
    /\ cancelled => Len(component_details) <= Cardinality(attempted)
    /\ attempted \subseteq Range(LeafKeys(parsed_outline.value))
    /\ req.context = "NEW_TOOL" =>
          /\ llm_calls = (IF pc = "start" THEN 0 ELSE 1)
          /\ ~parsed_outline.set /\ component_details = <<>>
    /\ req.context = Complete =>
          /\ llm_calls = (IF pc = "start" THEN 0 ELSE 1) + Cardinality(attempted)
          /\ (pc \in {"saving", "done"} /\ code_string.ok) =>
                /\ code_string = Code(assemble_components(parsed_outline.value,
                                                          component_details))
                /\ status \in {HierarchicalStatus(parsed_outline.value,
                                                  component_details),
                               "ERROR_SAVING_ASSEMBLED_CODE", "CANCELLED"}
    /\ write_calls \in {0, 1}
    /\ write_calls = 1 => pc \in {"saving", "done"}
    /\ saved_to_path # NoPath => (write_calls = 1 /\ code_string.ok)
    /\ saved_to_path \in {NoPath, req.target_path}

\* C13: of two requests on one CodeService, every step of one leaves the
\* data of the other as it is, and after every step and every switch the
\* running request holds the result of its own calls only.
C13_RequestsDoNotInterfere ==
    [][/\ (other' # other) => (other' = Own /\ Own' = other)
       /\ OwnResult']_vars

\* both requests returned with a result of their own: one assembled a
\* function from generated code, the other one from a placeholder, and the
\* file holds what the first of them wrote
C13_Witness ==
    /\ other # NoOther
    /\ pc = "done" /\ other.pc = "done"
    /\ req.context = Complete /\ other.req.context = Complete
    /\ status = "SUCCESS_HIERARCHICAL_ASSEMBLED"
    /\ other.status = "ERROR_SAVING_ASSEMBLED_CODE"
    /\ other.code_string.ok /\ other.code_string # code_string
    /\ file = code_string

\* --------------------------------------- properties of detail generation
\* the answer without its markdown fence
Unfenced(text) ==
    LET from == IF text # <<>> /\ text[1] = Fence THEN 2 ELSE 1
        to == IF Len(text) >= from /\ text[Len(text)] = Fence
              THEN Len(text) - 1 ELSE Len(text)
    IN  SubSeq(text, from, to)

\* the three cases of the claim: LLM error, error sentinel, too short
DetailFails(out) ==
    \/ out.error
    \/ Unfenced(out.text) # <<>> /\ Unfenced(out.text)[1] = ErrorMarker
    \/ Len(Unfenced(out.text)) < MinCodeLen

\* lines of the text that are placeholder bodies
Todos(text) == {i \in 1..Len(text) : IsTodo(text[i])}

\* C21: _generate_detail_for_component gives None when the LLM call
\* errors, answers with the error marker or answers too little, and the
\* cleaned code otherwise; a None entry is never emitted as code: the
\* assembled text has a placeholder for it and nothing of the failed answer.
C21_FailedDetailIsNone ==
    /\ pc = "details" =>
          \A k \in inflight :
             \A out \in DetailOutputs(NameOf(parsed_outline.value, k)) :
                generate_detail_for_component(out) =
                   (IF DetailFails(out) THEN None ELSE Code(Unfenced(out.text)))
    /\ \A i \in 1..Len(component_details) :
          \/ component_details[i].value = None
          \/ /\ component_details[i].value.ok
             /\ Len(component_details[i].value.code) >= MinCodeLen
             /\ component_details[i].value.code[1] \notin {ErrorMarker, Fence}
    /\ Assembled =>
          /\ Cardinality(Todos(code_string.code)) =
                Cardinality({k \in Range(LeafKeys(parsed_outline.value)) :
                                ~Get(component_details, k).ok})
          /\ \A i \in 1..Len(code_string.code) :
                code_string.code[i][2] \notin {ErrorMarker[2], "x", "cannot implement"}

\* a text was assembled from two entries, one of them None
C21_Witness ==
    /\ Assembled
    /\ Len(component_details) = 2
    /\ \E i, j \in 1..2 : /\ component_details[i].value = None
                          /\ component_details[j].value.ok

\* ------------------------------------------ properties of the status sets
ModifyRequest == req.method = "modify_code" /\ req.context \in ModifyContexts

\* the change is applied at most once and only after a usable suggestion;
\* the error statuses say how far the request came
ModifyStepsOrdered ==
    /\ apply_calls <= 1
    /\ apply_calls = 1 =>
          (pc = "done" /\ llm_calls = 1 /\ code_string.ok /\ req.module_path)
    /\ status = "ERROR_LLM_NO_SUGGESTION" =>
          (apply_calls = 0 /\ file = None /\ ~code_string.ok /\ llm_calls = 1)
    /\ status = "ERROR_APPLYING_CHANGE" => (apply_calls = 1 /\ file = None)
    /\ file # None => (apply_calls = 1 /\ status = "SUCCESS_CODE_GENERATED")

\* C22 as stated: a modify request ends only in success,
\* ERROR_LLM_NO_SUGGESTION or ERROR_APPLYING_CHANGE, with its steps ordered.
C22_ModifyEndsInThree ==
    ModifyRequest =>
      /\ pc = "done" =>
            status \in {"SUCCESS_CODE_GENERATED", "ERROR_LLM_NO_SUGGESTION",
                        "ERROR_APPLYING_CHANGE"}
      /\ ModifyStepsOrdered

\* C22: a modify request ends only in success, ERROR_NO_ORIGINAL_CODE
\* (before any LLM call), ERROR_LLM_NO_SUGGESTION, ERROR_APPLYING_CHANGE or
\* CANCELLED; the change is applied only after a usable suggestion, a run
\* ending in ERROR_LLM_NO_SUGGESTION applied nothing, and
\* ERROR_APPLYING_CHANGE follows an apply step that failed.
C22_ModifyStatusesOrdered ==
    ModifyRequest =>
      /\ pc = "done" =>
            status \in {"SUCCESS_CODE_GENERATED", "ERROR_NO_ORIGINAL_CODE",
                        "ERROR_LLM_NO_SUGGESTION", "ERROR_APPLYING_CHANGE",
                        "CANCELLED"}
      /\ status = "ERROR_NO_ORIGINAL_CODE" => (llm_calls = 0 /\ apply_calls = 0)
      /\ ModifyStepsOrdered

\* the apply step of a self-fix request was attempted and failed
C22_Witness ==
    /\ ModifyRequest /\ pc = "done"
    /\ status = "ERROR_APPLYING_CHANGE" /\ apply_calls = 1
    /\ code_string.ok

SinglePassRequest ==
    req.method = "generate_code" /\ req.context \in SinglePassContexts

\* without LLM output nothing is written; ERROR_SAVING_CODE follows a
\* write that was attempted and failed
SinglePassStepsOrdered ==
    /\ status = "ERROR_LLM_NO_OUTPUT" =>
          (pc = "done" /\ write_calls = 0 /\ file = None /\ ~code_string.ok)
    /\ status = "ERROR_SAVING_CODE" =>
          (pc = "done" /\ write_calls = 1 /\ file = None /\ saved_to_path = NoPath)
    /\ write_calls > 0 => (llm_calls = 1 /\ req.target_path # NoPath)

NoLongRun(text) ==
    \A i \in 1..(Len(text) - 2) :
        ~(text[i] = Blank /\ text[i + 1] = Blank /\ text[i + 2] = Blank)

\* the lines of text that are not the third or a later blank line of a run
FirstTwoOfRuns(text) ==
    {i \in 1..Len(text) :
        ~(text[i] = Blank /\ i > 2 /\ text[i - 1] = Blank /\ text[i - 2] = Blank)}

RECURSIVE PickLines(_, _, _)
PickLines(text, keep, i) ==
    IF i > Len(text) THEN <<>>
    ELSE (IF i \in keep THEN <<text[i]>> ELSE <<>>) \o PickLines(text, keep, i + 1)

\* text with every run of blank lines cut to at most two
Squeezed(text) == PickLines(text, FirstTwoOfRuns(text), 1)

\* the texts of the claim: generated code with three blank lines in a row
\* and without, and that code between two blank lines, behind one and
\* behind four blank lines
RunTexts(details) ==
    UNION {{details[i].value.code,
            <<Blank>> \o details[i].value.code \o <<Blank, Blank>>,
            <<Blank, Blank, Blank, Blank>> \o details[i].value.code}
             : i \in {j \in 1..Len(details) : details[j].value.ok}}

MaxTimers == 3      \* timers pending at once
MaxText == 1        \* characters of an AI message
MaxFetches == 2     \* fetches in flight at once
MaxColumns == 2     \* matrix columns on the display at once
MaxRefreshes == 3   \* refreshes of the active-tasks list issued in all
MaxTasks == 2       \* tasks (and notifications) the server knows of
MaxItems == 2       \* items of the suggestion in the chat log
MaxActions == 2     \* approve/deny requests sent from one item

\* the value null of the script
null == "null"

\* the classes setWeiboState removes before it adds the ones of a state
LogicalClasses ==
    {"idle", "weibo-working-idle", "weibo-thinking", "weibo-talking",
     "weibo-in-work-zone"}

WeiboStates ==
    {"idle", "background-processing", "weibo-thinking", "weibo-talking"}

\* the states the indicator rests in between two interactions
RestingStates == {"idle", "background-processing"}

getCurrentWeiboState(p) ==
    IF "weibo-thinking" \in p.classList THEN "weibo-thinking"
    ELSE IF "weibo-talking" \in p.classList THEN "weibo-talking"
    ELSE IF "weibo-in-work-zone" \in p.classList THEN "background-processing"
    ELSE IF "idle" \in p.classList THEN "idle"
    ELSE null

\* Timer ids. The browser hands out a fresh id at every setTimeout; an id
\* that is neither pending nor stored in idleAnimationTimeoutId can not be
\* observed any more, so the smallest such id stands for the fresh one.
UsedIds(p) == {t.id : t \in p.timers} \cup {p.idleAnimationTimeoutId}

NewId(p) ==
    CHOOSE i \in 1..(Cardinality(p.timers) + 2) :
        /\ i \notin UsedIds(p)
        /\ \A j \in 1..(i - 1) : j \in UsedIds(p)

\* setTimeout(fn, delay): fn is pending; i is the state its closure holds
\* (the characters typeCharacter has still to type)
setTimeout(p, fn, i) ==
    [p EXCEPT !.timers = @ \cup {[id |-> NewId(p), fn |-> fn, i |-> i]}]

\* clearTimeout(id): a pending timer of that id is dropped; null or the id
\* of a timer that has fired clears nothing
clearTimeout(p, id) ==
    [p EXCEPT !.timers = {t \in @ : t.id # id}]

stopIdleAnimation(p) ==
    [clearTimeout(p, p.idleAnimationTimeoutId)
        EXCEPT !.idleAnimationTimeoutId = 0]

\* the id of the 100 ms timer is not kept
startIdleAnimation(p) ==
    setTimeout(stopIdleAnimation(p), "startIdleAnimation", 0)

animateIdleWeiboMutNoIdleCheck(p, zero) ==
    LET id == NewId(p)
    IN  [p EXCEPT
            !.style = IF zero THEN @ ELSE "drift",
            !.timers = @ \cup {[id |-> id, fn |-> "animateIdleWeibo",
                               i |-> 0]},
            !.idleAnimationTimeoutId = id]

\* one step of the drift loop; zero: the parent's rectangle is empty and
\* the indicator is not moved
animateIdleWeibo(p, zero) ==
    IF "idle" \notin p.classList
    THEN p
    ELSE LET id == NewId(p)
         IN  [p EXCEPT
                 !.style = IF zero THEN @ ELSE "drift",
                 !.timers = @ \cup {[id |-> id, fn |-> "animateIdleWeibo",
                                    i |-> 0]},
                 !.idleAnimationTimeoutId = id]

\* requestAnimationFrame hands out a fresh id; as with timers, the
\* smallest id that is neither pending nor stored stands for it
NewFrame(p) ==
    CHOOSE i \in 1..(Cardinality(p.frames) + 2) :
        /\ i \notin p.frames \cup {p.matrixAnimationId}
        /\ \A j \in 1..(i - 1) : j \in p.frames \cup {p.matrixAnimationId}

startMatrixAnimationMutNoGuard(p) ==
    LET id == NewFrame(p)
    IN  [p EXCEPT !.matrixScrollEffect = "block",
                  !.frames = @ \cup {id},
                  !.matrixAnimationId = id]

\* matrixScrollEffect is null (no such element) or the element's
\* style.display
startMatrixAnimation(p) ==
    IF p.matrixAnimationId # 0 \/ p.matrixScrollEffect = null
    THEN p
    ELSE LET id == NewFrame(p)
         IN  [p EXCEPT !.matrixScrollEffect = "block",
                       !.frames = @ \cup {id},
                       !.matrixAnimationId = id]

\* cancelAnimationFrame drops the pending frame of the stored id;
\* matrixColumns is the number of columns (in the array and in the element)
stopMatrixAnimation(p) ==
    [p EXCEPT !.frames = @ \ {p.matrixAnimationId},
              !.matrixAnimationId = 0,
              !.matrixScrollEffect = IF @ = null THEN null ELSE "none",
              !.matrixColumns = 0]

\* one frame of the matrix animation. spawn: the spawn interval has passed;
\* fall: how many columns have scrolled below the display and are removed.
\* The script stops spawning at 50 columns; MaxColumns are followed. The
\* 50 ms timer of createMatrixColumn sets the opacity of the new column
\* and nothing else.
animateMatrix(p, spawn, fall) ==
    IF p.matrixScrollEffect \in {null, "none"}
    THEN [p EXCEPT !.matrixAnimationId = 0]
    ELSE LET spawned == IF spawn /\ p.matrixColumns < 50
                           /\ p.matrixColumns < MaxColumns
                        THEN p.matrixColumns + 1
                        ELSE p.matrixColumns
             left == IF fall <= spawned THEN spawned - fall ELSE 0
             id == NewFrame(p)
         IN  [p EXCEPT !.matrixColumns = left,
                       !.frames = @ \cup {id},
                       !.matrixAnimationId = id]

\* the part of setWeiboState that shows and hides the matrix effect
setWeiboState_matrix(p, state) ==
    IF p.matrixScrollEffect = null
    THEN p
    ELSE IF state = "background-processing"
    THEN startMatrixAnimation([p EXCEPT !.matrixScrollEffect = "block"])
    ELSE stopMatrixAnimation([p EXCEPT !.matrixScrollEffect = "none"])

setWeiboStateMutKeepsClasses(p, state) ==
    LET cleared == setWeiboState_matrix([p EXCEPT !.style = ""], state)
        with(c) == [cleared EXCEPT !.classList = @ \cup c]
    IN  CASE state = "idle" -> startIdleAnimation(with({"idle"}))
          [] state = "background-processing" ->
                stopIdleAnimation(with({"weibo-in-work-zone",
                                        "weibo-working-idle"}))
          [] state = "weibo-thinking" ->
                stopIdleAnimation(with({"weibo-thinking"}))
          [] state = "weibo-talking" ->
                stopIdleAnimation(with({"weibo-talking"}))
          [] OTHER -> startIdleAnimation(with({"idle"}))

setWeiboState(p, state) ==
    LET cleared == setWeiboState_matrix(
                       [p EXCEPT !.classList = @ \ LogicalClasses,
                                 !.style = ""], state)
        with(c) == [cleared EXCEPT !.classList = @ \cup c]
    IN  CASE state = "idle" -> startIdleAnimation(with({"idle"}))
          [] state = "background-processing" ->
                stopIdleAnimation(with({"weibo-in-work-zone",
                                        "weibo-working-idle"}))
          [] state = "weibo-thinking" ->
                stopIdleAnimation(with({"weibo-thinking"}))
          [] state = "weibo-talking" ->
                stopIdleAnimation(with({"weibo-talking"}))
          [] OTHER -> startIdleAnimation(with({"idle"}))

\* isWeiboWorkingInBackground ? 'background-processing' : 'idle'
RestState(p) ==
    IF p.isWeiboWorkingInBackground THEN "background-processing" ELSE "idle"

\* typeCharacter with left characters still to type: it types one and
\* schedules itself, or, with none left, ends the message
typeCharacter(p, left) ==
    IF left > 0
    THEN setTimeout(p, "typeCharacter", left - 1)
    ELSE setWeiboState(p, RestState(p))

\* appendToChatLog(text, 'ai') with a text of len characters (every text
\* the script appends is non-empty): the first call of typeCharacter is
\* made at once. A user or system-help message changes nothing modelled.
appendToChatLog(p, len) == typeCharacter(p, len)

toggleBackgroundWorkMutAlwaysSets(p) ==
    LET q == [p EXCEPT !.isWeiboWorkingInBackground = ~@]
    IN  setWeiboState(q, RestState(q))

toggleBackgroundWork(p) ==
    LET q == [p EXCEPT !.isWeiboWorkingInBackground = ~@]
    IN  IF getCurrentWeiboState(q) \in RestingStates
        THEN setWeiboState(q, RestState(q))
        ELSE q

\* forceShow is "true", "false" or "undefined" (a click on the button and
\* the command /toggle_project_display pass no argument)
toggleProjectDisplay(p, forceShow) ==
    LET show == IF forceShow \in {"true", "false"}
                THEN forceShow = "true"
                ELSE ~p.projectModeActive
    IN  IF show
        THEN LET q == [p EXCEPT
                          !.projectModeActive = TRUE,
                          !.parentNode = "projectDisplayArea",
                          !.classList =
                              (@ \cup {"weibo-project-corner"})
                                 \ {"idle", "weibo-thinking",
                                    "weibo-talking", "weibo-in-work-zone"}]
                 current == getCurrentWeiboState(q)
             IN  setWeiboState(q, IF current = null THEN "idle" ELSE current)
        ELSE LET q == [p EXCEPT
                          !.projectModeActive = FALSE,
                          !.parentNode = "aiCoreDisplay",
                          !.classList = @ \ {"weibo-project-corner"}]
                 current == getCurrentWeiboState(q)
             IN  setWeiboState(q, IF current = null THEN "idle" ELSE current)

\* fetch(url): a request is in flight; settled: its promise has settled
fetch(p, api) == [p EXCEPT !.fetches[api] = @ + 1]

settled(p, api) == [p EXCEPT !.fetches[api] = @ - 1]

\* what /chat_api can answer: response.ok, and which of chat_response,
\* project_area_html and success the body carries (success: true, false or
\* absent); len: the length of the text that is typed, if one is
ChatResponses ==
    [ok : BOOLEAN, chat_response : BOOLEAN, project_area_html : BOOLEAN,
     success : {"true", "false", "absent"}, len : 1..MaxText]

\* sendMessage up to its await
sendMessage_call(p) == fetch(setWeiboState(p, "weibo-thinking"), "chat")

\* sendMessage after its await, with the response parsed
sendMessage_then(p, data) ==
    LET p1 == setWeiboState(settled(p, "chat"), "weibo-talking")
    IN  IF ~data.ok
        THEN appendToChatLog(p1, data.len)
        ELSE LET p2 == IF data.project_area_html
                       THEN toggleProjectDisplay(p1, "true")
                       ELSE p1
                 p3 == IF data.chat_response
                       THEN appendToChatLog(p2, data.len)
                       ELSE IF data.success = "false"
                       THEN appendToChatLog(p2, data.len)
                       ELSE IF ~data.project_area_html
                               /\ data.success = "true"
                       THEN appendToChatLog(p2, data.len)
                       ELSE p2
             IN  IF ~data.chat_response
                    /\ (data.project_area_html \/ data.success = "true")
                 THEN setWeiboState(p3, RestState(p3))
                 ELSE p3

\* sendMessage's catch: the fetch failed or the body is not JSON
sendMessage_catch(p, len) ==
    appendToChatLog(setWeiboState(settled(p, "chat"), "idle"), len)

\* handleTaskAction up to its await
handleTaskAction_call(p) == fetch(setWeiboState(p, "weibo-thinking"), "task")

\* handleTaskAction after its await: success, failure and catch each
\* append an AI message, then the finally block runs
handleTaskAction_then(p, len) ==
    LET q == appendToChatLog(settled(p, "task"), len)
    IN  setWeiboState(q, RestState(q))

\* the click handler of analyzeDisplayBtn with nothing to analyze
analyzeDisplay_nothing(p, len) ==
    setTimeout(setWeiboState(appendToChatLog(p, len), "weibo-talking"),
               "reset", 0)

\* a pending timer t fires: it is no longer pending and its callback runs
fire(p, t, zero) ==
    LET q == [p EXCEPT !.timers = @ \ {t}]
    IN  CASE t.fn = "startIdleAnimation" ->
                IF getCurrentWeiboState(q) = "idle"
                THEN animateIdleWeibo(q, zero)
                ELSE q
          [] t.fn = "animateIdleWeibo" -> animateIdleWeibo(q, zero)
          [] t.fn = "typeCharacter" -> typeCharacter(q, t.i)
          [] t.fn = "reset" -> setWeiboState(q, RestState(q))

\* the page before DOMContentLoaded
BlankPage ==
    [classList |-> {}, style |-> "", isWeiboWorkingInBackground |-> FALSE,
     idleAnimationTimeoutId |-> 0, timers |-> {},
     fetches |-> [chat |-> 0, task |-> 0, notifications |-> 0,
                  suggestions |-> 0, action |-> 0],
     projectModeActive |-> FALSE, parentNode |-> "aiCoreDisplay",
     matrixScrollEffect |-> null, matrixAnimationId |-> 0,
     matrixColumns |-> 0, frames |-> {},
     collapsed |-> FALSE,
     activeTasksList |-> [text |-> "", items |-> {}],
     recentNotificationsList |-> [text |-> "", items |-> {}],
     refreshes |-> {}, issued |-> 0,
     latest |-> [text |-> "", items |-> {}],
     analyzeDisplayBtn |-> [disabled |-> FALSE, title |-> "Analyze Display"],
     analyses |-> <<>>,
     suggestionItems |-> <<>>]

\* the DOMContentLoaded handler ends with setWeiboState('idle')
LoadedPage == setWeiboState(BlankPage, "idle")

\* the variables of the code-writing service, which the page never touches
service == <<req, pc, status, code_string, parsed_outline, component_details,
             saved_to_path, inflight, attempted, abandoned, file, llm_calls,
             write_calls, apply_calls, cancelled, outline_raw, other>>

\* no request is served while the page is followed
NoRequest ==
    /\ req = AsmRequest
    /\ pc = "none"
    /\ status = ""
    /\ code_string = None
    /\ parsed_outline = NoOutline
    /\ component_details = <<>>
    /\ saved_to_path = NoPath
    /\ inflight = {}
    /\ attempted = {}
    /\ abandoned = {}
    /\ file = None
    /\ llm_calls = 0
    /\ write_calls = 0
    /\ apply_calls = 0
    /\ cancelled = FALSE
    /\ outline_raw = NoRaw
    /\ other = NoOther

InitPage ==
    /\ page = LoadedPage
    /\ NoRequest

\* the page after a handler has run; the bounds cut off the pages with
\* more pending timers or fetches than are followed
becomes(p) ==
    /\ Cardinality(p.timers) <= MaxTimers
    /\ p.fetches.chat + p.fetches.task <= MaxFetches
    /\ page' = p
    /\ UNCHANGED service

sendMessage == becomes(sendMessage_call(page))

sendMessage_response ==
    /\ page.fetches.chat > 0
    /\ \E data \in ChatResponses : becomes(sendMessage_then(page, data))

sendMessage_error ==
    /\ page.fetches.chat > 0
    /\ \E len \in 1..MaxText : becomes(sendMessage_catch(page, len))

handleTaskAction == becomes(handleTaskAction_call(page))

handleTaskAction_response ==
    /\ page.fetches.task > 0
    /\ \E len \in 1..MaxText : becomes(handleTaskAction_then(page, len))

analyzeDisplay ==
    /\ ~page.analyzeDisplayBtn.disabled
    /\ \E len \in 1..MaxText : becomes(analyzeDisplay_nothing(page, len))

click_toggleBackgroundWork == becomes(toggleBackgroundWork(page))

click_toggleProjectDisplay == becomes(toggleProjectDisplay(page, "undefined"))

\* the timer of the given id fires. Delays are not modelled: any pending
\* timer may be the next one to fire.
timeout(id) ==
    \E t \in page.timers :
        /\ t.id = id
        /\ \E zero \in BOOLEAN : becomes(fire(page, t, zero))

NextPage ==
    \/ sendMessage
    \/ sendMessage_response
    \/ sendMessage_error
    \/ handleTaskAction
    \/ handleTaskAction_response
    \/ analyzeDisplay
    \/ click_toggleBackgroundWork
    \/ click_toggleProjectDisplay
    \/ \E id \in 1..(MaxTimers + 1) : timeout(id)

SpecPage == InitPage /\ [][NextPage]_vars

\* ---------------------------------------------------------------------
\* Properties of the chat page
\* ---------------------------------------------------------------------

\* the pending steps of idle-drift loops
DriftTimers(p) == {t \in p.timers : t.fn = "animateIdleWeibo"}

\* C25: at most one idle-drift loop of animateIdleWeibo is alive at any
\* time: no two drift timers are pending together, whatever handlers ran
\* and whatever timers fired before.
C25_OneDriftLoop == Cardinality(DriftTimers(page)) <= 1

\* The event loop runs every timer that is due, and every fetch settles:
\* its promise is fulfilled with a response or rejected.
FairPage ==
    /\ SpecPage
    /\ \A id \in 1..(MaxTimers + 1) : WF_vars(timeout(id))
    /\ WF_vars(sendMessage_response \/ sendMessage_error)
    /\ WF_vars(handleTaskAction_response)

\* the indicator shows the given state
Shows(state) == getCurrentWeiboState(page) = state

\* the indicator is in one of its resting states
Resting == getCurrentWeiboState(page) \in RestingStates

\* C26: once the answer of /chat_api has put the indicator into
\* 'weibo-talking', the indicator eventually returns to 'idle' or
\* 'background-processing', whatever the answer carried.
C26_TalkingEnds == Shows("weibo-talking") ~> Resting

\* a callback of an interaction that began earlier runs: a timer fires
\* (the end of a typing animation, a delayed reset, a step of the idle
\* animation) or the fetch of a task action settles and its finally runs
EarlierCallback ==
    \/ \E id \in 1..(MaxTimers + 1) : timeout(id)
    \/ handleTaskAction_response

\* C27: while the /chat_api request of sendMessage is in flight and the
\* indicator shows 'weibo-thinking', no callback of an earlier interaction
\* takes the indicator out of 'weibo-thinking'.
C27_ThinkingUntilResponse ==
    [][(page.fetches.chat > 0 /\ Shows("weibo-thinking") /\ EarlierCallback)
          => getCurrentWeiboState(page') = "weibo-thinking"]_vars

\* C28: a resting indicator agrees with the background flag: it shows
\* 'background-processing' when isWeiboWorkingInBackground is true and
\* 'idle' when it is false.
C28_RestAgreesWithFlag == Resting => Shows(RestState(page))

\* C30: toggleProjectDisplay keeps the logical state of the indicator,
\* whether it shows or hides the project display and whichever state the
\* indicator is in.
C30_ToggleKeepsState ==
    \A forceShow \in {"true", "false", "undefined"} :
        getCurrentWeiboState(toggleProjectDisplay(page, forceShow))
            = getCurrentWeiboState(page)

\* ---------------------------------------------------------------------
\* The indicator on its own: setWeiboState is called with any argument,
\* in any order, and the timers it leaves behind fire.
\* ---------------------------------------------------------------------

\* the four states and a name setWeiboState does not know
Arguments == WeiboStates \cup {"weibo-dancing"}

call_setWeiboState(state) == becomes(setWeiboState(page, state))

NextIndicator ==
    \/ \E state \in Arguments : call_setWeiboState(state)
    \/ \E id \in 1..(MaxTimers + 1) : timeout(id)

SpecIndicator == InitPage /\ [][NextIndicator]_vars

\* the class getCurrentWeiboState recognises a state by
MarkerOf(state) ==
    IF state = "background-processing" THEN "weibo-in-work-zone" ELSE state

\* the logical states the indicator carries
Carried(p) == {state \in WeiboStates : MarkerOf(state) \in p.classList}

\* the state an argument of setWeiboState stands for
StateFor(argument) ==
    IF argument \in WeiboStates THEN argument ELSE "idle"

\* C29: after a call of setWeiboState with any argument the indicator
\* carries exactly one logical state, the one the argument stands for
\* ('idle' for an unknown argument), getCurrentWeiboState returns that
\* state and not null, and it goes on returning it until the next call.
C29_OneStateLastSet ==
    [][/\ \A argument \in Arguments :
              call_setWeiboState(argument) =>
                  /\ Carried(page') = {StateFor(argument)}
                  /\ getCurrentWeiboState(page') = StateFor(argument)
       /\ (\E id \in 1..(MaxTimers + 1) : timeout(id)) =>
              /\ Carried(page') = Carried(page)
              /\ getCurrentWeiboState(page') = getCurrentWeiboState(page)
      ]_vars

\* setWeiboState('background-processing') was called on an idle indicator
\* whose start timer is still pending: the indicator carries that state
\* alone and the timer is left behind
C29_Witness ==
    /\ Carried(page) = {"background-processing"}
    /\ page.classList = {"weibo-in-work-zone", "weibo-working-idle"}
    /\ page.idleAnimationTimeoutId = 0
    /\ \E t \in page.timers : t.fn = "startIdleAnimation"

\* ---------------------------------------------------------------------
\* The indicator and its two switches: setWeiboState is called with any
\* argument, the background flag and the project display are toggled,
\* and the timers left behind fire.
\* ---------------------------------------------------------------------

SpecControls ==
    InitPage /\ [][\/ NextIndicator
                   \/ click_toggleBackgroundWork
                   \/ click_toggleProjectDisplay]_vars

\* C33: toggleBackgroundWork always flips isWeiboWorkingInBackground; in
\* 'weibo-thinking' and 'weibo-talking' it leaves the indicator as it is
\* (its classes, its inline style, its timers), and in a resting state it
\* puts the indicator into the resting state of the new flag.
C33_ToggleFlipsFlagOnly ==
    [][click_toggleBackgroundWork =>
          /\ page'.isWeiboWorkingInBackground
                = ~page.isWeiboWorkingInBackground
          /\ ~Resting =>
                /\ page'.classList = page.classList
                /\ page'.style = page.style
                /\ page'.timers = page.timers
                /\ page'.idleAnimationTimeoutId = page.idleAnimationTimeoutId
          /\ Resting => getCurrentWeiboState(page') = RestState(page')
      ]_vars

\* the flag was switched on while the indicator was thinking, or the
\* indicator began to think with the flag on: it shows 'weibo-thinking'
C33_Witness ==
    /\ page.isWeiboWorkingInBackground
    /\ Shows("weibo-thinking")
    /\ "weibo-in-work-zone" \notin page.classList

\* C35: while the indicator is in 'weibo-thinking', 'weibo-talking' or
\* 'background-processing', idleAnimationTimeoutId is null, and a timer of
\* the idle animation that fires then does not touch the inline position
\* and scale of the indicator.
C35_NoDriftOutsideIdle ==
    /\ [](~Shows("idle") => page.idleAnimationTimeoutId = 0)
    /\ [][(~Shows("idle") /\ \E id \in 1..(MaxTimers + 1) : timeout(id))
             => page'.style = page.style]_vars

\* a step of a drift loop is still pending although the indicator has
\* left 'idle': it was orphaned by a second start timer
C35_Witness ==
    /\ ~Shows("idle")
    /\ DriftTimers(page) # {}

\* ---------------------------------------------------------------------
\* The indicator of a page that has the matrix element: setWeiboState is
\* called with any argument, timers fire and animation frames run.
\* ---------------------------------------------------------------------

\* the page after DOMContentLoaded when #matrixScrollEffect exists
InitMatrix ==
    /\ page = setWeiboState([BlankPage EXCEPT !.matrixScrollEffect = "none"],
                            "idle")
    /\ NoRequest

\* the browser runs a pending animation frame
animationFrame ==
    \E f \in page.frames, spawn \in BOOLEAN, fall \in 0..MaxColumns :
        becomes(animateMatrix([page EXCEPT !.frames = @ \ {f}], spawn, fall))

SpecMatrix == InitMatrix /\ [][NextIndicator \/ animationFrame]_vars

\* C34: a frame of animateMatrix is scheduled exactly while the indicator
\* is in 'background-processing', there is never more than one, it is the
\* one matrixAnimationId names, and outside 'background-processing' no
\* matrix column is left and the element is hidden.
C34_MatrixOnlyInBackground ==
    /\ (page.frames # {}) <=> Shows("background-processing")
    /\ Cardinality(page.frames) <= 1
    /\ page.frames \subseteq {page.matrixAnimationId}
    /\ ~Shows("background-processing") =>
          /\ page.matrixColumns = 0
          /\ page.matrixScrollEffect = "none"
          /\ page.matrixAnimationId = 0

\* frames have run in 'background-processing' and columns are falling
C34_Witness ==
    /\ Shows("background-processing")
    /\ page.matrixColumns = MaxColumns
    /\ Cardinality(page.frames) = 1

\* ---------------------------------------------------------------------
\* The status panel: the lists of active tasks and of notifications
\* ---------------------------------------------------------------------

\* fetchAndDisplayActiveTasks up to its await. The refreshes are numbered
\* in the order they are issued (page.issued refreshes so far) and
\* page.refreshes holds the numbers of those not yet answered; page.latest
\* will hold what the list should show for the answer to the newest one.
fetchAndDisplayActiveTasks(p) ==
    [p EXCEPT !.activeTasksList = [text |-> "Loading tasks...", items |-> {}],
              !.issued = @ + 1,
              !.refreshes = @ \cup {p.issued + 1},
              !.latest = [text |-> "", items |-> {}]]

\* fetchAndDisplayRecentNotifications up to its await
fetchAndDisplayRecentNotifications(p) ==
    fetch([p EXCEPT !.recentNotificationsList =
                        [text |-> "Loading notifications...", items |-> {}]],
          "notifications")

\* what /api/status/active_tasks and /api/status/notifications can answer:
\* response.ok and the entries of the body; a failed fetch is handled as
\* an answer that is not ok
ListResponses == [ok : BOOLEAN, entries : SUBSET (1..MaxTasks)]

\* what a list shows once the answer r is handled: one item for each
\* entry, or one of two texts
shown(r, error, none) ==
    IF ~r.ok THEN [text |-> error, items |-> {}]
    ELSE IF r.entries = {} THEN [text |-> none, items |-> {}]
    ELSE [text |-> "", items |-> r.entries]

\* a click on statusPanelToggle; opening the panel refreshes both lists
click_statusPanelToggle ==
    LET q == [page EXCEPT !.collapsed = ~@]
    IN  /\ q.collapsed \/ page.issued < MaxRefreshes
        /\ q.collapsed \/ page.fetches.notifications < MaxFetches
        /\ becomes(IF q.collapsed
                   THEN q
                   ELSE fetchAndDisplayRecentNotifications(
                            fetchAndDisplayActiveTasks(q)))

click_refreshActiveTasksBtn ==
    /\ page.issued < MaxRefreshes
    /\ becomes(fetchAndDisplayActiveTasks(page))

\* refresh n is answered: fetchAndDisplayActiveTasks after its await
activeTasks_response ==
    \E n \in page.refreshes, r \in ListResponses :
        LET list == shown(r, "Error loading tasks.", "No active tasks.")
        IN  becomes([page EXCEPT
                        !.refreshes = @ \ {n},
                        !.activeTasksList = list,
                        !.latest = IF n = page.issued THEN list ELSE @])

\* fetchAndDisplayRecentNotifications after its await
notifications_response ==
    /\ page.fetches.notifications > 0
    /\ \E r \in ListResponses :
        becomes([settled(page, "notifications") EXCEPT
                    !.recentNotificationsList =
                        shown(r, "Error loading notifications.",
                              "No new notifications.")])

\* the status panel. It starts open; the first click may collapse it, so
\* the pages of a panel that is collapsed when the page is loaded are
\* among those followed.
SpecPanel ==
    /\ InitPage
    /\ [][\/ click_statusPanelToggle
          \/ click_refreshActiveTasksBtn
          \/ activeTasks_response
          \/ notifications_response]_vars

\* C36: when refreshes of the active-tasks list have overlapped and all
\* of them are answered, the list shows what the most recently issued
\* refresh returned
C36_ShowsLatestRefresh ==
    (page.issued > 0 /\ page.refreshes = {})
        => page.activeTasksList = page.latest

\* a list never mixes two answers: it shows the loading text or exactly
\* what one answer gives
C36_NeverAMix ==
    page.activeTasksList \in
        {shown(r, "Error loading tasks.", "No active tasks.") :
            r \in ListResponses}
        \cup {[text |-> "Loading tasks...", items |-> {}],
              [text |-> "", items |-> {}]}

\* ---------------------------------------------------------------------
\* The Analyze button
\* ---------------------------------------------------------------------

analyzeDisplay_callMutNotDisabled(p) ==
    setWeiboState(
        [p EXCEPT !.analyzeDisplayBtn.title = "Analyzing...",
                  !.analyses = Append(@, p.analyzeDisplayBtn.title)],
        "weibo-thinking")

\* the click handler of analyzeDisplayBtn with content to analyze, up to
\* its await. page.analyses holds, for every run of the handler that waits
\* for its answer, the originalButtonTitle it has kept.
analyzeDisplay_call(p) ==
    setWeiboState(
        [p EXCEPT !.analyzeDisplayBtn.disabled = TRUE,
                  !.analyzeDisplayBtn.title = "Analyzing...",
                  !.analyses = Append(@, p.analyzeDisplayBtn.title)],
        "weibo-thinking")

\* a click on the button; a disabled button is not clicked
click_analyzeDisplayBtn ==
    /\ ~page.analyzeDisplayBtn.disabled
    /\ Len(page.analyses) < MaxFetches
    /\ becomes(analyzeDisplay_call(page))

\* the handler after its await: run i is answered with a body that says
\* success or an error, or its fetch fails; an AI message of len
\* characters is appended on each path, then the finally block runs
analyzeDisplay_response ==
    \E i \in 1..Len(page.analyses), len \in 1..MaxText,
       answer \in {"success", "server error", "network error"} :
        LET originalButtonTitle == page.analyses[i]
            q == [page EXCEPT !.analyses =
                     SubSeq(@, 1, i - 1) \o SubSeq(@, i + 1, Len(@))]
            said == IF answer = "network error"
                    THEN appendToChatLog(setWeiboState(q, RestState(q)), len)
                    ELSE appendToChatLog(setWeiboState(q, "weibo-talking"),
                                         len)
        IN  becomes([said EXCEPT
                        !.analyzeDisplayBtn.disabled = FALSE,
                        !.analyzeDisplayBtn.title = originalButtonTitle])

SpecAnalyze ==
    InitPage /\ [][\/ analyzeDisplay
                   \/ click_analyzeDisplayBtn
                   \/ analyzeDisplay_response
                   \/ \E id \in 1..(MaxTimers + 1) : timeout(id)]_vars

\* C32: at most one /api/analyze_display request is in flight; the button
\* is disabled, and titled "Analyzing...", exactly while one is, and it
\* is enabled with the title it had at first whenever none is
C32_OneAnalysisInFlight ==
    /\ Len(page.analyses) <= 1
    /\ page.analyzeDisplayBtn.disabled <=> (Len(page.analyses) = 1)
    /\ page.analyzeDisplayBtn.title =
           IF page.analyses = <<>>
           THEN BlankPage.analyzeDisplayBtn.title
           ELSE "Analyzing..."

\* an analysis has just been answered: its message is being typed (no
\* timer of the handler's other path is pending) and the button is
\* enabled again
C32_Witness ==
    /\ page.analyses = <<>>
    /\ ~page.analyzeDisplayBtn.disabled
    /\ Shows("weibo-talking")
    /\ \E t \in page.timers : t.fn = "typeCharacter"
    /\ \A t \in page.timers : t.fn # "reset"

\* ---------------------------------------------------------------------
\* Suggestions listed in the chat log, and their Approve and Deny buttons
\* ---------------------------------------------------------------------

\* One suggestion is followed. page.suggestionItems holds, in document
\* order, the items of it in the chat log (each listing adds one, all with
\* the element id suggestion-item-<id>): whether the item has its
\* .suggestion-actions element, and how many approve/deny requests have
\* been sent by clicks on the item's buttons.

\* the command /suggestions: fetchAndDisplaySuggestions up to its await
listSuggestions ==
    /\ page.fetches.suggestions + page.fetches.action < MaxFetches
    /\ becomes(fetch(setWeiboState(page, "weibo-thinking"), "suggestions"))

\* fetchAndDisplaySuggestions after its await: the suggestion is listed,
\* pending or not, or a message (none found, or the error) is appended;
\* then the finally block runs
listSuggestions_response ==
    /\ page.fetches.suggestions > 0
    /\ \E listed \in BOOLEAN, pending \in BOOLEAN, len \in 1..MaxText :
        LET q == settled(page, "suggestions")
            said == IF listed
                    THEN [q EXCEPT !.suggestionItems =
                             Append(@, [actions |-> pending, sent |-> 0])]
                    ELSE appendToChatLog(q, len)
        IN  /\ Len(said.suggestionItems) <= MaxItems
            /\ becomes(setWeiboState(said, RestState(said)))

\* a click on the Approve or the Deny button of item i: the chatLogArea
\* click listener calls handleSuggestionAction, which runs up to its await
\* (both buttons run the same steps, to different URLs)
click_suggestionAction ==
    \E i \in 1..Len(page.suggestionItems), action \in {"approve", "deny"} :
        /\ page.suggestionItems[i].actions
        /\ page.suggestionItems[i].sent < MaxActions
        /\ page.fetches.suggestions + page.fetches.action < MaxFetches
        /\ becomes(fetch(setWeiboState(
                             [page EXCEPT !.suggestionItems[i].sent = @ + 1],
                             "weibo-thinking"),
                         "action"))

\* handleSuggestionAction after its await: data.success, or not, or an
\* error; a message is appended on each path. On success the
\* .suggestion-actions element of the first element with the item's id is
\* removed. Then the finally block runs.
suggestionAction_response ==
    /\ page.fetches.action > 0
    /\ \E success \in BOOLEAN, len \in 1..MaxText :
        LET q == appendToChatLog(settled(page, "action"), len)
            r == IF success /\ q.suggestionItems # <<>>
                 THEN [q EXCEPT !.suggestionItems[1].actions = FALSE]
                 ELSE q
        IN  becomes(setWeiboState(r, RestState(r)))

SpecSuggestions ==
    InitPage /\ [][\/ listSuggestions
                   \/ listSuggestions_response
                   \/ click_suggestionAction
                   \/ suggestionAction_response
                   \/ \E id \in 1..(MaxTimers + 1) : timeout(id)]_vars

\* C31: for each suggestion item in the chat log at most one approve/deny
\* request is ever sent
C31_OneActionPerItem ==
    \A i \in 1..Len(page.suggestionItems) : page.suggestionItems[i].sent <= 1

====
